---- MODULE Spec2Model ----
(***************************************************************************)
(* Clean Street Index (CSI) scoring: src/SmartAssist/models/csi/src/       *)
(* computation.py.                                                         *)
(*                                                                         *)
(* Numbers.  The code computes in floating point.  Here a float is a       *)
(* record [k, n, d]: k = "fin" is the exact rational n/d (d > 0, lowest    *)
(* terms), k = "inf" is +/-infinity (sign in n), k = "nan" is NaN.         *)
(* Division by zero follows numpy (inf or nan plus a warning, no           *)
(* exception).  Rounding of float32/float64 is not modelled.               *)
(*                                                                         *)
(* Arrays.  A mask is a sequence of rows, each a sequence of labels;       *)
(* columns are numbered from 1 here and from 0 in the code.  None is the   *)
(* empty tuple.                                                            *)
(***************************************************************************)
EXTENDS Integers, Sequences, FiniteSets, TLC

VARIABLES
    pc,              \* "call": arguments chosen, call not made; "done": returned or raised
    wm_args,         \* arguments of get_weight_matrix_linspace
    wm_ret,          \* what get_weight_matrix_linspace returned or raised
    road_mask,       \* the caller's road mask array (compute_csi works on it in place)
    garbage_mask,    \* the caller's garbage mask array (same)
    trapezoid_mask,  \* the region mask passed to compute_csi
    cfg,             \* the remaining arguments of compute_csi
    road_in,         \* road_mask as it was when compute_csi was called
    garbage_in,      \* garbage_mask as it was when compute_csi was called
    ret,             \* what compute_csi returned or raised
    ext_args,        \* the argument of find_xmin_xmax: [src]
    ext_ret,         \* what find_xmin_xmax returned or raised
    disc_args,       \* the arguments of get_discrete_csi: [levels, continuous_csi]
    disc_ret,        \* what get_discrete_csi returned or raised
    csi_config,      \* the configuration given to create_filtering_masks
    masks_ret,       \* what create_filtering_masks returned or raised
    trapezoid_masks, \* probes.py's trapezoid_masks: the region mask of each view
    built_masks,     \* trapezoid_masks as built when the module was loaded
    key,             \* the view of the frame being scored: "front" or "rear"
    frames,          \* number of frames taken so far
    first,           \* what the first call on the present arrays returned, once they
                     \* are scored again
    threads,         \* per view, a compute_csi invocation running on its own thread:
                     \* the line it is at, its arrays and what it returned
    locals,          \* per invocation, the local variables csi_absolute, x_min, x_max
    batch_meta,      \* the batch metadata of the buffer: its frames, its lock, the CSI
                     \* metadata attached
    probe,           \* compute_csi_buffer_probe: where it is, l_frame, how it ended
    sm,              \* the attributes of a SmartStateMachine
    now              \* datetime.now(), counted in calls of status_send

\* the variables of each function's calls
weightVars   == <<wm_args, wm_ret>>
csiVars      == <<road_mask, garbage_mask, trapezoid_mask, cfg, road_in, garbage_in, ret>>
extentVars   == <<ext_args, ext_ret>>
discreteVars == <<disc_args, disc_ret>>
maskVars     == <<csi_config, masks_ret>>
frameVars    == <<trapezoid_masks, built_masks, key, frames, first>>

threadVars   == <<threads, locals>>

probeVars    == <<batch_meta, probe>>

\* the variables beyond those of the single calls
smVars       == <<sm, now>>

\* the variables beyond those of the single calls
systemVars == <<frameVars, threadVars, probeVars, smVars>>

vars == <<pc, weightVars, csiVars, extentVars, discreteVars, maskVars, systemVars>>

----------------------------------------------------------------------------
(* Bounds of the model.                                                    *)

\* rows of a mask given to compute_csi
NRows == 2
\* columns of a mask given to compute_csi
NCols == 4
\* largest n_cols given to get_weight_matrix_linspace directly
MaxWmCols == 9
\* largest n_rows given to get_weight_matrix_linspace directly
MaxWmRows == 2
\* most rows of an array given to find_xmin_xmax directly
ExtRows == 2
\* most columns of an array given to find_xmin_xmax directly
ExtCols == 4
\* longest levels array built from LevelValues for get_discrete_csi
MaxLevels == 3
\* largest img_h and img_w given to create_filtering_masks
MaxImg == 2
\* largest resize_h and resize_w given to create_filtering_masks
MaxResize == 2

----------------------------------------------------------------------------
(* Floating-point values.                                                  *)

Abs(x) == IF x < 0 THEN -x ELSE x

RECURSIVE GCD(_, _)
GCD(a, b) == IF b = 0 THEN a ELSE GCD(b, a % b)

NaN == [k |-> "nan", n |-> 0, d |-> 1]

Inf(s) == [k |-> "inf", n |-> s, d |-> 1]

\* the float n/d, d # 0
Q(n, d) ==
    LET s == IF d < 0 THEN -1 ELSE 1
        g == GCD(Abs(n), Abs(d))
    IN  [k |-> "fin", n |-> (s * n) \div g, d |-> (s * d) \div g]

F(i) == Q(i, 1)

IsNaN(a) == a.k = "nan"

IsFin(a) == a.k = "fin"

Sgn(a) == IF a.n > 0 THEN 1 ELSE IF a.n < 0 THEN -1 ELSE 0

\* a + b (0 + b = b and a + 0 = a first: they hold for NaN and inf too)
FAdd(a, b) ==
    IF a.k = "fin" /\ a.n = 0 THEN b
    ELSE IF b.k = "fin" /\ b.n = 0 THEN a
    ELSE IF IsNaN(a) \/ IsNaN(b) THEN NaN
    ELSE IF a.k = "inf" /\ b.k = "inf" THEN (IF a.n = b.n THEN a ELSE NaN)
    ELSE IF a.k = "inf" THEN a
    ELSE IF b.k = "inf" THEN b
    ELSE Q(a.n * b.d + b.n * a.d, a.d * b.d)

FNeg(a) == [a EXCEPT !.n = -a.n]

FSub(a, b) == FAdd(a, FNeg(b))

\* a * b (1 * b = b and a * 1 = a first: they hold for NaN and inf too)
FMul(a, b) ==
    IF a.k = "fin" /\ a.n = 1 /\ a.d = 1 THEN b
    ELSE IF b.k = "fin" /\ b.n = 1 /\ b.d = 1 THEN a
    ELSE IF IsNaN(a) \/ IsNaN(b) THEN NaN
    ELSE IF a.k = "inf" \/ b.k = "inf"
         THEN (IF Sgn(a) * Sgn(b) = 0 THEN NaN ELSE Inf(Sgn(a) * Sgn(b)))
    ELSE Q(a.n * b.n, a.d * b.d)

\* numpy scalar division: x/0 is +/-inf, 0/0 is nan, nothing is raised
FDiv(a, b) ==
    IF IsNaN(a) \/ IsNaN(b) THEN NaN
    ELSE IF b.k = "inf" THEN (IF a.k = "inf" THEN NaN ELSE F(0))
    ELSE IF b.n = 0 THEN (IF Sgn(a) = 0 THEN NaN ELSE Inf(Sgn(a)))
    ELSE IF a.k = "inf" THEN Inf(Sgn(a) * Sgn(b))
    ELSE Q(a.n * b.d, a.d * b.n)

\* a < b, a <= b; every comparison with NaN is false
FLt(a, b) ==
    /\ ~IsNaN(a) /\ ~IsNaN(b)
    /\ IF a.k = "inf" THEN a.n < 0 /\ ~(b.k = "inf" /\ b.n < 0)
       ELSE IF b.k = "inf" THEN b.n > 0
       ELSE a.n * b.d < b.n * a.d

FLeq(a, b) == ~IsNaN(a) /\ ~IsNaN(b) /\ ~FLt(b, a)

\* Python's a > b on floats
FGt(a, b) == FLt(b, a)

\* FClip with the upper bound forgotten
FClipLowerOnly(a, lo, hi) ==
    IF IsNaN(a) THEN NaN ELSE IF FLt(a, lo) THEN lo ELSE a

\* np.clip(a, a_min, a_max) = minimum(maximum(a, a_min), a_max); NaN stays NaN
FClip(a, lo, hi) ==
    IF IsNaN(a) THEN NaN
    ELSE LET m == IF FLt(a, lo) THEN lo ELSE a
         IN  IF FLt(hi, m) THEN hi ELSE m

\* FMax taking the least element
RECURSIVE FMaxLeast(_)
FMaxLeast(s) ==
    IF Len(s) = 1 THEN s[1]
    ELSE LET m == FMaxLeast(Tail(s)) IN IF FLt(m, s[1]) THEN m ELSE s[1]

\* Python's max() of a non-empty list of floats
RECURSIVE FMax(_)
FMax(s) ==
    IF Len(s) = 1 THEN s[1]
    ELSE LET m == FMax(Tail(s)) IN IF FGt(m, s[1]) THEN m ELSE s[1]

RECURSIVE FSum(_)
FSum(s) == IF s = <<>> THEN F(0) ELSE FAdd(s[1], FSum(Tail(s)))

\* np.sum of a 2D float array
FSumMat(m) == FSum([r \in 1..Len(m) |-> FSum(m[r])])

RECURSIVE ISum(_)
ISum(s) == IF s = <<>> THEN 0 ELSE s[1] + ISum(Tail(s))

\* np.sum of a 2D integer array
ISumMat(m) == ISum([r \in 1..Len(m) |-> ISum(m[r])])

----------------------------------------------------------------------------
(* get_weight_matrix_linspace                                              *)

\* np.linspace(start, stop, num): num evenly spaced floats, the last one stop
Linspace(start, stop, num) ==
    IF num <= 0 THEN <<>>
    ELSE IF num = 1 THEN <<start>>
    ELSE LET step == FDiv(FSub(stop, start), F(num - 1))
         IN  [i \in 1..num |->
                 IF i = num THEN stop ELSE FAdd(start, FMul(F(i - 1), step))]

\* Repeat laying the weights out the way np.tile does: the sequence grouping times over
RepeatTiled(weights, grouping) ==
    [j \in 1..(Len(weights) * grouping) |-> weights[((j - 1) % Len(weights)) + 1]]

\* np.repeat(weights, grouping): every element grouping times over
Repeat(weights, grouping) ==
    [j \in 1..(Len(weights) * grouping) |-> weights[((j - 1) \div grouping) + 1]]

\* ClampStart without the reset of a negative linsp_start to 0
ClampStartNoLower(linsp_start, linsp_stop) ==
    LET e1 == IF FGt(linsp_stop, F(1)) THEN F(1) ELSE linsp_stop
    IN  IF FGt(linsp_start, e1) THEN F(0) ELSE linsp_start

\* linsp_start after the bounds checks of lines 103-116
ClampStart(linsp_start, linsp_stop) ==
    LET s1 == IF FLt(linsp_start, F(0)) THEN F(0) ELSE linsp_start
        e1 == IF FGt(linsp_stop, F(1)) THEN F(1) ELSE linsp_stop
    IN  IF FGt(s1, e1) THEN F(0) ELSE s1

\* ClampStop without the reset of linsp_stop > 1 to 1
ClampStopNoUpper(linsp_start, linsp_stop) ==
    LET s1 == IF FLt(linsp_start, F(0)) THEN F(0) ELSE linsp_start
    IN  IF FGt(s1, linsp_stop) THEN F(1) ELSE linsp_stop

\* linsp_stop after the bounds checks of lines 103-116
ClampStop(linsp_start, linsp_stop) ==
    LET s1 == IF FLt(linsp_start, F(0)) THEN F(0) ELSE linsp_start
        e1 == IF FGt(linsp_stop, F(1)) THEN F(1) ELSE linsp_stop
    IN  IF FGt(s1, e1) THEN F(1) ELSE e1

\* n_bins after the checks of lines 118-127
ClampBins(n_bins, n_cols) ==
    LET b1 == IF n_bins < 2 THEN 2 ELSE n_bins
        n_bins_max == n_cols \div 2
    IN  IF b1 > n_bins_max THEN n_bins_max ELSE b1

\* WeightRow with the right-hand ramp written unreversed
WeightRowNotMirrored(n_cols, ramp) ==
    LET col_start == n_cols - Len(ramp)
    IN  [c \in 1..n_cols |->
            IF c > col_start THEN ramp[c - col_start]
            ELSE IF c <= Len(ramp) THEN ramp[c] ELSE F(1)]

\* one row of the field: ones, then the ramp on the left, then its mirror on the right
WeightRow(n_cols, ramp) ==
    LET col_stop  == Len(ramp)
        col_start == n_cols - Len(ramp)
        ones      == [c \in 1..n_cols |-> F(1)]
        left      == [c \in 1..n_cols |-> IF c <= col_stop THEN ramp[c] ELSE ones[c]]
    IN  [c \in 1..n_cols |->
            IF c > col_start THEN ramp[Len(ramp) + 1 - (c - col_start)] ELSE left[c]]

\* np_int: n_cols is a numpy integer (as in compute_csi's call), for which
\* n_cols // 0 is 0 with a warning; for a Python int it raises ZeroDivisionError.
\* Besides the field, the result records the locals n_bins and grouping as they
\* were when the function left (grouping is 0 where line 132 was not completed).
get_weight_matrix_linspace(n_rows, n_cols, n_bins, linsp_start, linsp_stop, np_int) ==
    IF n_rows <= 0 \/ n_cols <= 0
    THEN [raised |-> "ValueError", field |-> <<>>, n_bins |-> n_bins, grouping |-> 0]
    ELSE
    LET start == ClampStart(linsp_start, linsp_stop)
        stop  == ClampStop(linsp_start, linsp_stop)
        bins  == ClampBins(n_bins, n_cols)
    IN  IF bins * 2 = 0 /\ ~np_int
        THEN [raised |-> "ZeroDivisionError", field |-> <<>>,
              n_bins |-> bins, grouping |-> 0]
        ELSE
        LET grouping == IF bins * 2 = 0 THEN 0 ELSE n_cols \div (bins * 2)
            weights  == Linspace(start, stop, bins)
            ramp     == Repeat(weights, grouping)
        IN  [raised |-> "none",
             field  |-> [r \in 1..n_rows |-> WeightRow(n_cols, ramp)],
             n_bins |-> bins, grouping |-> grouping]

----------------------------------------------------------------------------
(* find_xmin_xmax                                                          *)

\* ColumnNonZero looking at the first row only
ColumnNonZeroFirstRow(src, c) == src[1][c] > 0

\* np.any(src > 0, axis=0)[c]
ColumnNonZero(src, c) == \E r \in 1..Len(src) : src[r][c] > 0

\* SingleColumn with the check left out
SingleColumnAccepted(x_min, x_max) == FALSE

\* SingleColumn rejecting two neighbouring columns as well
SingleColumnOrNeighbours(x_min, x_max) == x_max - x_min <= 1

\* line 59: the extent is one column wide
SingleColumn(x_min, x_max) == x_min = x_max

\* raises ValueError for an empty mask and for a single nonzero column
find_xmin_xmax(src) ==
    IF Len(src) < 1 \/ Len(src[1]) < 1
    THEN [raised |-> "ValueError", x_min |-> 0, x_max |-> 0]
    ELSE
    LET non_zero_indices == {c \in 1..Len(src[1]) : ColumnNonZero(src, c)}
    IN  IF non_zero_indices = {}
        THEN [raised |-> "ValueError", x_min |-> 0, x_max |-> 0]
        ELSE
        LET x_min == CHOOSE c \in non_zero_indices : \A e \in non_zero_indices : c <= e
            x_max == CHOOSE c \in non_zero_indices : \A e \in non_zero_indices : c >= e
        IN  IF SingleColumn(x_min, x_max)
            THEN [raised |-> "ValueError", x_min |-> x_min, x_max |-> x_max]
            ELSE [raised |-> "none", x_min |-> x_min, x_max |-> x_max]

----------------------------------------------------------------------------
(* compute_csi                                                             *)

None == <<>>

\* a * b elementwise on integer masks of one shape
MaskMul(a, b) == [r \in 1..Len(a) |-> [c \in 1..Len(a[r]) |-> a[r][c] * b[r][c]]]

\* np.unique(mask): the set of values in it; np.unique(None) is {None}, here {-1}
Unique(mask) ==
    IF mask = None THEN {-1}
    ELSE UNION {{mask[r][c] : c \in 1..Len(mask[r])} : r \in 1..Len(mask)}

\* road_mask.any()
MaskAny(mask) == \E r \in 1..Len(mask) : \E c \in 1..Len(mask[r]) : mask[r][c] # 0

\* np.unique's order: ascending
RECURSIVE Ascending(_)
Ascending(S) ==
    IF S = {} THEN <<>>
    ELSE LET m == CHOOSE x \in S : \A y \in S : x <= y
         IN  <<m>> \o Ascending(S \ {m})

\* lines 333-335: the float copy of the road mask, columns x_min..x_max times the field
WeightedRoad(road, x_min, x_max, field) ==
    [r \in 1..Len(road) |-> [c \in 1..Len(road[r]) |->
        IF c >= x_min /\ c <= x_max
        THEN FMul(F(road[r][c]), field[r][c - x_min + 1])
        ELSE F(road[r][c])]]

\* LabelArea with the sub-mask taken as garbage >= label
LabelAreaThreshold(weighted, garbage, label) ==
    FSumMat([r \in 1..Len(garbage) |-> [c \in 1..Len(garbage[r]) |->
        FMul(weighted[r][c], IF garbage[r][c] >= label THEN F(1) ELSE F(0))]])

\* lines 347-355 for one label: the weighted road summed over the pixels carrying it
LabelArea(weighted, garbage, label) ==
    FSumMat([r \in 1..Len(garbage) |-> [c \in 1..Len(garbage[r]) |->
        FMul(weighted[r][c], IF garbage[r][c] = label THEN F(1) ELSE F(0))]])

\* the loop of lines 346-355 over labels in the given order;
\* areas[label - 1] of the code is areas[label] here
RECURSIVE AreasLoop(_, _, _, _)
AreasLoop(labels, areas, weighted, garbage) ==
    IF labels = <<>> THEN areas
    ELSE AreasLoop(Tail(labels),
                   [areas EXCEPT ![labels[1]] = LabelArea(weighted, garbage, labels[1])],
                   weighted, garbage)

\* the loop of lines 359-364, from index i on
RECURSIVE RelativeLoop(_, _, _, _, _)
RelativeLoop(i, acc, coeffs, areas, denom) ==
    IF i > Len(coeffs) THEN acc
    ELSE RelativeLoop(i + 1,
                      FAdd(acc, FMul(coeffs[i], FDiv(areas[i], denom))),
                      coeffs, areas, denom)

\* lines 333-372, given the filtered masks and the extent; labels in the given order
Score(road, garbage, ext, c, labels) ==
    LET wm       == get_weight_matrix_linspace(Len(garbage), (ext.x_max + 1) - ext.x_min,
                        c.n_bins, c.linsp_start, c.linsp_stop, TRUE)
        weighted == WeightedRoad(road, ext.x_min, ext.x_max, wm.field)
        road_area == FSumMat(weighted)
        zeros    == [i \in 1..Len(c.garbage_type_coeffs) |-> F(0)]
        areas    == AreasLoop(labels, zeros, weighted, garbage)
        denom    == FAdd(FMul(c.percentage_dirty_road, road_area), c.smooth)
        summed   == RelativeLoop(1, F(0), c.garbage_type_coeffs, areas, denom)
    IN  FDiv(summed, FMax(c.garbage_type_coeffs))

\* FilterRoad flipping the pixels outside the region instead of clearing them
FilterRoadToggled(road, trapezoid) ==
    [r \in 1..Len(road) |-> [col \in 1..Len(road[r]) |->
        IF trapezoid[r][col] # 0 THEN road[r][col] * trapezoid[r][col]
        ELSE 1 - road[r][col]]]

\* line 309: road_mask *= trapezoid_mask
FilterRoad(road, trapezoid) == MaskMul(road, trapezoid)

\* FilterGarbage with the filtering left out
FilterGarbageSkipped(garbage, road) == garbage

\* line 312: garbage_mask *= road_mask
FilterGarbage(garbage, road) == MaskMul(garbage, road)

\* line 315: np.sum(garbage_mask)
SumGarbage(garbage) == F(ISumMat(garbage))

\* what a call returns or raises, and what it leaves in the caller's two arrays
Outcome(raised, relative, unclipped, absolute, road, garbage) ==
    [raised |-> raised, relative |-> relative, unclipped |-> unclipped,
     absolute |-> absolute, road_mask |-> road, garbage_mask |-> garbage]

\* AbsoluteWithoutExtent keeping the sum of line 315
AbsoluteWithoutExtentKept(csi_absolute) == csi_absolute

\* lines 329-331: when find_xmin_xmax raises, the absolute score computed at line
\* 315 is dropped and NaN is returned in its place
AbsoluteWithoutExtent(csi_absolute) == NaN

\* lines 308-372: the call once the emptiness and label checks have passed
FilterAndScore(road, garbage, trapezoid, c) ==
    LET road1    == FilterRoad(road, trapezoid)
        garbage1 == FilterGarbage(garbage, road1)
        csi_absolute == SumGarbage(garbage1)
        ext      == find_xmin_xmax(road1)
        labels   == Ascending(Unique(garbage1) \ {0})
    IN  IF ext.raised # "none"
        THEN Outcome("none", NaN, NaN, AbsoluteWithoutExtent(csi_absolute),
                     road1, garbage1)
        ELSE IF \E l \in Unique(garbage1) \ {0} : l > Len(c.garbage_type_coeffs)
        THEN Outcome("IndexError", NaN, NaN, NaN, road1, garbage1)
        ELSE LET rel == Score(road1, garbage1, ext, c, labels)
             IN  Outcome("none",
                         IF c.clip_csi THEN FClip(rel, F(0), F(1)) ELSE rel,
                         rel, csi_absolute, road1, garbage1)

\* EmptyRoad without the test for a mask of zeros
EmptyRoadNoneOnly(road) == road = None

\* lines 286-295: the road mask is None or has no nonzero pixel
EmptyRoad(road) == road = None \/ ~MaskAny(road)

\* lines 297-306 (__debug__ is on unless Python runs with -O)
ValidLabels(road, garbage, c) ==
    /\ Unique(road) \subseteq c.road_class_ids
    /\ Unique(garbage) \subseteq c.garbage_class_ids

compute_csi(road, garbage, trapezoid, c) ==
    IF EmptyRoad(road)
    THEN Outcome("none", NaN, NaN, NaN, road, garbage)
    ELSE IF ~ValidLabels(road, garbage, c)
    THEN Outcome("ValueError", NaN, NaN, NaN, road, garbage)
    ELSE FilterAndScore(road, garbage, trapezoid, c)

----------------------------------------------------------------------------
(* create_filtering_masks.  A corner point is <<x, y>>.                    *)

\* lines 171-186: one of the four sizes is not positive
BadDimensions(c) ==
    c.img_h <= 0 \/ c.img_w <= 0 \/ c.resize_h <= 0 \/ c.resize_w <= 0

\* OutOfBounds without the upper limit on y
OutOfBoundsNoUpperY(roi_point, img_h, img_w) ==
    roi_point[1] < 0 \/ roi_point[1] > img_w \/ roi_point[2] < 0

\* lines 196-204 (and 214-222): the point's x is outside [0, img_w] or its y
\* outside [0, img_h]
OutOfBounds(roi_point, img_h, img_w) ==
    roi_point[1] < 0 \/ roi_point[1] > img_w \/ roi_point[2] < 0 \/ roi_point[2] > img_h

\* lines 189-194
FrontRoiParams(c) ==
    <<c.tp_front_top_left, c.tp_front_top_right,
      c.tp_front_bottom_right, c.tp_front_bottom_left>>

\* lines 207-212
RearRoiParams(c) ==
    <<c.tp_rear_top_left, c.tp_rear_top_right,
      c.tp_rear_bottom_right, c.tp_rear_bottom_left>>

\* a color written into a uint8 image: saturated to 0..255
SaturateU8(color) == IF color < 0 THEN 0 ELSE IF color > 255 THEN 255 ELSE color

Least(S) == CHOOSE x \in S : \A y \in S : x <= y

Greatest(S) == CHOOSE x \in S : \A y \in S : x >= y

\* FillPoly that leaves the polygon's outline undrawn
FillPolyInterior(img_h, img_w, roi, color) ==
    LET xs == {roi[i][1] : i \in 1..Len(roi)}
        ys == {roi[i][2] : i \in 1..Len(roi)}
    IN  [r \in 1..img_h |-> [col \in 1..img_w |->
            IF /\ col - 1 > Least(xs) /\ col - 1 < Greatest(xs)
               /\ r - 1 > Least(ys) /\ r - 1 < Greatest(ys)
            THEN SaturateU8(color) ELSE 0]]

\* lines 228-229: cv.fillPoly on a zero image of shape (img_h, img_w).  It colors
\* the polygon's interior and its outline, clipped to the image.  For a quadrilateral
\* with sides parallel to the axes (the only ones drawn here) these are the pixels
\* (x, y) with x and y between the least and the greatest corner coordinate; pixel
\* (x, y) is [y + 1][x + 1] here.
FillPoly(img_h, img_w, roi, color) ==
    LET xs == {roi[i][1] : i \in 1..Len(roi)}
        ys == {roi[i][2] : i \in 1..Len(roi)}
    IN  [r \in 1..img_h |-> [col \in 1..img_w |->
            IF /\ col - 1 >= Least(xs) /\ col - 1 <= Greatest(xs)
               /\ r - 1 >= Least(ys) /\ r - 1 <= Greatest(ys)
            THEN SaturateU8(color) ELSE 0]]

\* the source index cv.resize(..., INTER_NEAREST) reads for target index i (from 0):
\* min(floor(i * src_size / dst_size), src_size - 1)
NearestIndex(i, src_size, dst_size) ==
    LET sx == (i * src_size) \div dst_size
    IN  IF sx > src_size - 1 THEN src_size - 1 ELSE sx

\* lines 230 and 236: cv.resize to dsize = (rsz_w, rsz_h), nearest neighbour
Resize(src, rsz_w, rsz_h) ==
    [r \in 1..rsz_h |-> [col \in 1..rsz_w |->
        src[NearestIndex(r - 1, Len(src), rsz_h) + 1]
           [NearestIndex(col - 1, Len(src[1]), rsz_w) + 1]]]

\* lines 227-230 (and 233-236): one view's mask
TrapMask(c, roi, road_class_label) ==
    Resize(FillPoly(c.img_h, c.img_w, roi, road_class_label), c.resize_w, c.resize_h)

\* the elements of a list
Elements(list) == {list[i] : i \in 1..Len(list)}

\* NonRoadPixels with the check left out
NonRoadPixelsUnchecked(mask, class_ids) == FALSE

\* lines 239-240, one mask: not np.isin(np.unique(mask), class_ids).all()
NonRoadPixels(mask, class_ids) ==
    \E r \in 1..Len(mask) : \E col \in 1..Len(mask[r]) :
        mask[r][col] \notin Elements(class_ids)

\* what a call returns or raises: `stage` is the part of the function it left from,
\* trap_mask_front and trap_mask_rear are the locals as built (<<>> if not built),
\* `masks` the pair returned (<<>> if the call raised)
MasksOutcome(raised, stage, trap_mask_front, trap_mask_rear) ==
    [raised |-> raised, stage |-> stage,
     trap_mask_front |-> trap_mask_front, trap_mask_rear |-> trap_mask_rear,
     masks |-> IF raised = "none" THEN <<trap_mask_front, trap_mask_rear>> ELSE <<>>]

create_filtering_masks(c) ==
    IF BadDimensions(c)
    THEN MasksOutcome("ValueError", "dimensions", <<>>, <<>>)
    ELSE IF \E idx \in 1..4 : OutOfBounds(FrontRoiParams(c)[idx], c.img_h, c.img_w)
    THEN MasksOutcome("ValueError", "front_roi", <<>>, <<>>)
    ELSE IF \E idx \in 1..4 : OutOfBounds(RearRoiParams(c)[idx], c.img_h, c.img_w)
    THEN MasksOutcome("ValueError", "rear_roi", <<>>, <<>>)
    ELSE IF Len(c.class_ids) = 0
    THEN MasksOutcome("IndexError", "road_class_label", <<>>, <<>>)
    ELSE
    LET road_class_label == c.class_ids[Len(c.class_ids)]
        trap_mask_front  == TrapMask(c, FrontRoiParams(c), road_class_label)
        trap_mask_rear   == TrapMask(c, RearRoiParams(c), road_class_label)
    IN  IF NonRoadPixels(trap_mask_front, c.class_ids)
           \/ NonRoadPixels(trap_mask_rear, c.class_ids)
        THEN MasksOutcome("ValueError", "mask_values", trap_mask_front, trap_mask_rear)
        ELSE MasksOutcome("none", "return", trap_mask_front, trap_mask_rear)

----------------------------------------------------------------------------
(* get_discrete_csi                                                        *)

\* np.abs on a float
FAbs(a) == [a EXCEPT !.n = Abs(a.n)]

\* Distance without the absolute value
DistanceSigned(level, continuous_csi) == FSub(level, continuous_csi)

\* line 398, one element: |level - continuous_csi|
Distance(level, continuous_csi) == FAbs(FSub(level, continuous_csi))

\* np.argmin scanning from position i with the best position so far at b: the
\* first smallest element wins, and a NaN counts as smallest
RECURSIVE ArgMinFrom(_, _, _)
ArgMinFrom(distances, i, b) ==
    IF i > Len(distances) \/ IsNaN(distances[b]) THEN b
    ELSE IF IsNaN(distances[i]) \/ FLt(distances[i], distances[b])
    THEN ArgMinFrom(distances, i + 1, i)
    ELSE ArgMinFrom(distances, i + 1, b)

\* np.argmin(distances) of a non-empty array, as an index from 0
ArgMin(distances) == ArgMinFrom(distances, 2, 1) - 1

\* NoLevels with the check left out
NoLevelsUnchecked(levels) == FALSE

\* line 389: levels.shape[0] <= 0
NoLevels(levels) == Len(levels) <= 0

\* ScoreIsNaN with the check left out
ScoreIsNaNUnchecked(continuous_csi) == FALSE

\* line 394: np.isnan(continuous_csi)
ScoreIsNaN(continuous_csi) == IsNaN(continuous_csi)

\* the result of get_discrete_csi: the pair returned, min_index as a float because
\* line 395 returns NaN in its place; neither is set when the call raises
DiscreteOutcome(raised, discrete_csi, min_index) ==
    [raised |-> raised, discrete_csi |-> discrete_csi, min_index |-> min_index]

\* np.argmin raises ValueError for an empty array
get_discrete_csi(levels, continuous_csi) ==
    IF NoLevels(levels)
    THEN DiscreteOutcome("ValueError", NaN, NaN)
    ELSE IF ScoreIsNaN(continuous_csi)
    THEN DiscreteOutcome("none", NaN, NaN)
    ELSE IF Len(levels) = 0
    THEN DiscreteOutcome("ValueError", NaN, NaN)
    ELSE
    LET distances == [i \in 1..Len(levels) |-> Distance(levels[i], continuous_csi)]
        min_index == ArgMin(distances)
    IN  DiscreteOutcome("none", levels[min_index + 1], F(min_index))

----------------------------------------------------------------------------
(* Calls of get_weight_matrix_linspace on its own.                         *)

NoCall == [none |-> TRUE]

\* no call of the function is under way
NoWeightCall   == wm_args = NoCall /\ wm_ret = NoCall
NoCsiCall ==
    /\ road_mask = <<>> /\ garbage_mask = <<>> /\ trapezoid_mask = <<>>
    /\ cfg = NoCall /\ road_in = <<>> /\ garbage_in = <<>> /\ ret = NoCall
NoExtentCall   == ext_args = NoCall /\ ext_ret = NoCall
NoDiscreteCall == disc_args = NoCall /\ disc_ret = NoCall
NoMaskCall     == csi_config = NoCall /\ masks_ret = NoCall

\* no frame is being processed
NoFrames ==
    /\ trapezoid_masks = NoCall /\ built_masks = NoCall
    /\ key = "none" /\ frames = 0 /\ first = NoCall

\* no invocation is running on a thread of its own
NoThreads == threads = NoCall /\ locals = NoCall

\* the probe is not running
NoProbe == batch_meta = NoCall /\ probe = NoCall

\* no SmartStateMachine exists
NoStateMachine == sm = NoCall /\ now = 0

\* nothing but a single call is modelled
NoSystem == NoFrames /\ NoThreads /\ NoProbe /\ NoStateMachine

\* edge and center weights tried, in and out of [0, 1]
WmWeights == {Q(-1, 2), F(0), Q(1, 2), Q(7, 10), F(1), Q(3, 2)}

\* n_bins tried: below the minimum, small, and the configured default
WmBins == {-1, 0, 1, 2, 3, 4, 48}

WmArgs ==
    [n_rows : 1..MaxWmRows, n_cols : 1..MaxWmCols, n_bins : WmBins,
     linsp_start : WmWeights, linsp_stop : WmWeights, np_int : BOOLEAN]

InitWeight ==
    /\ pc = "call"
    /\ wm_args \in {a \in WmArgs : a.np_int => a.n_cols = 1}
    /\ wm_ret = NoCall
    /\ NoCsiCall /\ NoExtentCall /\ NoDiscreteCall /\ NoMaskCall /\ NoSystem

WeightCall ==
    /\ pc = "call"
    /\ wm_args # NoCall
    /\ wm_ret' = get_weight_matrix_linspace(wm_args.n_rows, wm_args.n_cols,
                     wm_args.n_bins, wm_args.linsp_start, wm_args.linsp_stop,
                     wm_args.np_int)
    /\ pc' = "done"
    /\ UNCHANGED <<wm_args, csiVars, extentVars, discreteVars, maskVars, systemVars>>

NextWeight == WeightCall

SpecWeight == InitWeight /\ [][NextWeight]_vars

----------------------------------------------------------------------------
(* Properties of the weight field (checked under SpecWeight).              *)

\* get_weight_matrix_linspace has returned a field
WmReturned == pc = "done" /\ wm_args # NoCall /\ wm_ret.raised = "none"

\* C8: every field get_weight_matrix_linspace returns is exactly mirror-symmetric
\* about its horizontal center: field[r, i] = field[r, n_cols-1-i] for every row r
\* and column i (columns from 1 here: i and n_cols+1-i).
C8_FieldSymmetric ==
    WmReturned =>
        \A r \in 1..wm_args.n_rows : \A i \in 1..wm_args.n_cols :
            wm_ret.field[r][i] = wm_ret.field[r][wm_args.n_cols + 1 - i]

\* a returned field at least 5 columns wide whose ramp has two different steps
C8_Witness ==
    /\ WmReturned
    /\ wm_args.n_cols >= 5
    /\ wm_ret.field[1][1] # wm_ret.field[1][2]

\* C9: in every returned field each row is non-decreasing from the left edge to the
\* center and non-increasing from the center to the right edge, whatever n_bins,
\* linsp_start and linsp_stop were given (values that trigger clamping included).
C9_RampMonotonic ==
    WmReturned =>
        LET n == wm_args.n_cols IN
        \A r \in 1..wm_args.n_rows : \A i \in 1..n : \A j \in 1..n :
            /\ (i < j /\ j <= (n + 1) \div 2) => FLeq(wm_ret.field[r][i], wm_ret.field[r][j])
            /\ (i < j /\ i >= (n \div 2) + 1) => FLeq(wm_ret.field[r][j], wm_ret.field[r][i])

\* a field built from a clamped linsp_stop > 1 whose ramp climbs twice
C9_Witness ==
    /\ WmReturned
    /\ FGt(wm_args.linsp_stop, F(1))
    /\ wm_args.n_cols >= 6
    /\ FLt(wm_ret.field[1][1], wm_ret.field[1][2])
    /\ FLt(wm_ret.field[1][2], wm_ret.field[1][3])

WmCalled == pc = "done" /\ wm_args # NoCall

\* C11: get_weight_matrix_linspace never fails on out-of-range weight parameters: for
\* every n_rows >= 1, every n_cols >= 1 and every n_bins, linsp_start and linsp_stop
\* it returns a field of shape (n_rows, n_cols) without raising.
C11_NeverRaises ==
    WmCalled =>
        /\ wm_ret.raised = "none"
        /\ Len(wm_ret.field) = wm_args.n_rows
        /\ \A r \in 1..wm_args.n_rows : Len(wm_ret.field[r]) = wm_args.n_cols

\* C12: the number of weight steps used after clamping lies in [2, n_cols // 2] for
\* every requested n_bins and every n_cols >= 1, and grouping = n_cols // (2 * n_bins)
\* is always >= 1.
C12_StepsInRange ==
    WmCalled =>
        /\ wm_ret.n_bins >= 2
        /\ wm_ret.n_bins <= wm_args.n_cols \div 2
        /\ wm_ret.raised = "none"
        /\ wm_ret.grouping >= 1

\* the k-th (from 0) of b evenly spaced values from edge to center
RampValue(k, b, edge, center) ==
    IF b = 1 THEN edge
    ELSE FAdd(edge, FDiv(FMul(F(k), FSub(center, edge)), F(b - 1)))

\* C25: the field built by get_weight_matrix_linspace has, with b the effective step
\* count, grouping = n_cols // (2*b) and ramp_width = b*grouping <= n_cols/2: column
\* j < ramp_width holds the (j // grouping)-th of b linearly spaced values from the
\* effective edge weight to the effective center weight, column n_cols-1-j holds the
\* same value, the two ramp blocks never overlap, and every column in
\* [ramp_width, n_cols - ramp_width) holds 1.0.  (Columns are counted from 0 in the
\* claim and from 1 in the field of the model.)
C25_FieldStructure ==
    (WmCalled /\ wm_ret.raised = "none") =>
        LET n_cols     == wm_args.n_cols
            b          == wm_ret.n_bins
            grouping   == wm_ret.grouping
            ramp_width == b * grouping
            edge       == ClampStart(wm_args.linsp_start, wm_args.linsp_stop)
            center     == ClampStop(wm_args.linsp_start, wm_args.linsp_stop)
        IN  /\ b >= 1 => grouping = n_cols \div (2 * b)
            /\ 2 * ramp_width <= n_cols
            /\ \A r \in 1..wm_args.n_rows :
                   /\ \A j \in 0..(ramp_width - 1) :
                          /\ wm_ret.field[r][j + 1] =
                                 RampValue(j \div grouping, b, edge, center)
                          /\ wm_ret.field[r][n_cols - j] = wm_ret.field[r][j + 1]
                   /\ \A j \in ramp_width..(n_cols - ramp_width - 1) :
                          wm_ret.field[r][j + 1] = F(1)

\* a field with two steps of two columns each on either side of a middle column
C25_Witness ==
    /\ WmCalled
    /\ wm_ret.raised = "none"
    /\ wm_ret.n_bins >= 2
    /\ wm_ret.grouping >= 2
    /\ 2 * wm_ret.n_bins * wm_ret.grouping < wm_args.n_cols
    /\ wm_ret.field[1][1] # wm_ret.field[1][wm_ret.grouping + 1]
    /\ wm_ret.field[1][1] # F(1)

----------------------------------------------------------------------------
(* Calls of find_xmin_xmax on its own.                                     *)

\* arrays tried: every array of labels 0 and 1 (what compute_csi passes after lines
\* 297-312) with 0..ExtRows rows and 0..ExtCols columns
ExtentArrays ==
    UNION {[1..n_rows -> [1..n_cols -> {0, 1}]] : n_rows \in 0..ExtRows, n_cols \in 0..ExtCols}

InitExtent ==
    /\ pc = "call"
    /\ ext_args \in [src : ExtentArrays]
    /\ ext_ret = NoCall
    /\ NoWeightCall /\ NoCsiCall /\ NoDiscreteCall /\ NoMaskCall /\ NoSystem

ExtentCall ==
    /\ pc = "call"
    /\ ext_args # NoCall
    /\ ext_ret' = find_xmin_xmax(ext_args.src)
    /\ pc' = "done"
    /\ UNCHANGED <<ext_args, weightVars, csiVars, discreteVars, maskVars, systemVars>>

NextExtent == ExtentCall

SpecExtent == InitExtent /\ [][NextExtent]_vars

----------------------------------------------------------------------------
(* Properties of find_xmin_xmax (checked under SpecExtent).                *)

\* find_xmin_xmax has returned or raised
ExtentCalled == pc = "done" /\ ext_args # NoCall

\* the columns (from 1) of the array that hold a nonzero pixel in some row
C13_NonZeroColumns ==
    IF Len(ext_args.src) = 0 THEN {}
    ELSE {c \in 1..Len(ext_args.src[1]) : \E r \in 1..Len(ext_args.src) : ext_args.src[r][c] # 0}

\* C13: for every 2D mask in which at least two distinct columns contain a nonzero
\* pixel, find_xmin_xmax returns (x_min, x_max) with x_min the smallest and x_max the
\* largest column index containing a nonzero pixel in any row.
C13_ExtentIsFirstAndLast ==
    (ExtentCalled /\ Cardinality(C13_NonZeroColumns) >= 2) =>
        /\ ext_ret.raised = "none"
        /\ ext_ret.x_min \in C13_NonZeroColumns
        /\ ext_ret.x_max \in C13_NonZeroColumns
        /\ \A c \in C13_NonZeroColumns : ext_ret.x_min <= c /\ c <= ext_ret.x_max

\* an extent strictly inside the array whose first and last columns have their
\* pixels on different rows, the first row empty at both
C13_Witness ==
    /\ ExtentCalled
    /\ ext_ret.raised = "none"
    /\ ext_ret.x_min > 1
    /\ ext_ret.x_max < Len(ext_args.src[1])
    /\ ext_args.src[1][ext_ret.x_min] = 0
    /\ ext_args.src[1][ext_ret.x_max] = 0

\* C14: find_xmin_xmax raises ValueError and returns no extent exactly when the mask
\* has no nonzero pixel or all its nonzero pixels lie in a single column; for every
\* other 2D mask it returns an extent.
C14_RaisesExactlyWhenDegenerate ==
    ExtentCalled =>
        /\ ext_ret.raised \in {"none", "ValueError"}
        /\ ext_ret.raised = "ValueError" <=> Cardinality(C13_NonZeroColumns) <= 1

\* a raise for a single column holding two nonzero pixels
C14_Witness ==
    /\ ExtentCalled
    /\ ext_ret.raised = "ValueError"
    /\ Cardinality(C13_NonZeroColumns) = 1
    /\ Len(ext_args.src) >= 2
    /\ \A c \in C13_NonZeroColumns : ext_args.src[1][c] # 0 /\ ext_args.src[2][c] # 0

----------------------------------------------------------------------------
(* Calls of get_discrete_csi on its own.                                   *)

\* FRONT_CSI_LEVELS, REAR_CSI_LEVELS
FrontCsiLevels == 21
RearCsiLevels == 5

\* disc_levels of probes.py: np.linspace(0.0, 1.0, num)
DiscLevels(num) == Linspace(F(0), F(1), num)

\* level values the other arrays are built from
LevelValues == {F(0), Q(1, 4), Q(1, 2), Q(3, 4), F(1)}

\* levels arrays tried: every array of 0..MaxLevels values of LevelValues (unsorted
\* and repeating ones included) and the two configured arrays
LevelArrays ==
    UNION {[1..n -> LevelValues] : n \in 0..MaxLevels}
    \cup {DiscLevels(FrontCsiLevels), DiscLevels(RearCsiLevels)}

\* scores tried: NaN, infinity, below and above the levels, on a level, halfway
\* between two levels, and nearer to one
Scores ==
    {NaN, Inf(1), Q(-1, 4), F(0), Q(1, 8), Q(3, 8), Q(3, 5), Q(13, 20), F(1), Q(3, 2)}

InitDiscrete ==
    /\ pc = "call"
    /\ disc_args \in [levels : LevelArrays, continuous_csi : Scores]
    /\ disc_ret = NoCall
    /\ NoWeightCall /\ NoCsiCall /\ NoExtentCall /\ NoMaskCall /\ NoSystem

DiscreteCall ==
    /\ pc = "call"
    /\ disc_args # NoCall
    /\ disc_ret' = get_discrete_csi(disc_args.levels, disc_args.continuous_csi)
    /\ pc' = "done"
    /\ UNCHANGED <<disc_args, weightVars, csiVars, extentVars, maskVars, systemVars>>

NextDiscrete == DiscreteCall

SpecDiscrete == InitDiscrete /\ [][NextDiscrete]_vars

----------------------------------------------------------------------------
(* Properties of get_discrete_csi (checked under SpecDiscrete).            *)

\* get_discrete_csi has returned or raised
DiscreteCalled == pc = "done" /\ disc_args # NoCall

\* |levels[i] - continuous_csi| of the call made
C15_Dist(i) ==
    LET x == disc_args.continuous_csi
        l == disc_args.levels[i]
        d == FSub(l, x)
    IN  IF FLt(d, F(0)) THEN FNeg(d) ELSE d

\* k (from 1) is the lowest position whose level is nearest to the score
C15_LowestNearest(k) ==
    /\ \A j \in 1..Len(disc_args.levels) : FLeq(C15_Dist(k), C15_Dist(j))
    /\ \A j \in 1..(k - 1) : FLt(C15_Dist(k), C15_Dist(j))

\* C15: for a non-empty levels array and a non-NaN score x, get_discrete_csi returns
\* (levels[k], k) with k the lowest index minimizing |levels[k] - x| (on a tie the
\* lower index wins); levels [0, 0.25, 0.5, 0.75, 1] and x = 0.6 give (0.5, 2).
C15_NearestLevel ==
    (DiscreteCalled /\ Len(disc_args.levels) > 0 /\ ~IsNaN(disc_args.continuous_csi)) =>
        /\ disc_ret.raised = "none"
        /\ \E k \in 1..Len(disc_args.levels) :
              /\ C15_LowestNearest(k)
              /\ disc_ret.min_index = F(k - 1)
              /\ disc_ret.discrete_csi = disc_args.levels[k]
        /\ (disc_args.levels = <<F(0), Q(1, 4), Q(1, 2), Q(3, 4), F(1)>>
                /\ disc_args.continuous_csi = Q(3, 5))
             => (disc_ret.discrete_csi = Q(1, 2) /\ disc_ret.min_index = F(2))

\* a score exactly halfway between two different levels, the earlier one returned
C15_Witness ==
    /\ DiscreteCalled
    /\ disc_ret.raised = "none"
    /\ IsFin(disc_args.continuous_csi)
    /\ \E k \in 1..Len(disc_args.levels) : \E j \in (k + 1)..Len(disc_args.levels) :
          /\ disc_ret.min_index = F(k - 1)
          /\ disc_args.levels[j] # disc_args.levels[k]
          /\ C15_Dist(j) = C15_Dist(k)

\* C16 as stated: get_discrete_csi called with a NaN score returns (NaN, NaN) for
\* every levels array whatsoever, without raising.
C16_NaNForAnyLevels ==
    (DiscreteCalled /\ IsNaN(disc_args.continuous_csi)) =>
        /\ disc_ret.raised = "none"
        /\ IsNaN(disc_ret.discrete_csi)
        /\ IsNaN(disc_ret.min_index)

\* C16 amended: get_discrete_csi called with a NaN score returns (NaN, NaN) without
\* raising for every non-empty levels array; with an empty levels array it raises
\* ValueError, the levels being validated before the score is looked at.
C16_NaNForNonEmptyLevels ==
    (DiscreteCalled /\ IsNaN(disc_args.continuous_csi)) =>
        IF Len(disc_args.levels) > 0
        THEN /\ disc_ret.raised = "none"
             /\ IsNaN(disc_ret.discrete_csi)
             /\ IsNaN(disc_ret.min_index)
        ELSE disc_ret.raised = "ValueError"

\* (NaN, NaN) returned for a NaN score and the configured rear levels
C16_Witness ==
    /\ DiscreteCalled
    /\ IsNaN(disc_args.continuous_csi)
    /\ disc_args.levels = DiscLevels(RearCsiLevels)
    /\ disc_ret.raised = "none"
    /\ IsNaN(disc_ret.discrete_csi)

\* C17: get_discrete_csi called with an empty levels array fails with ValueError
\* instead of returning a level, for every score value.
C17_EmptyLevelsRaise ==
    (DiscreteCalled /\ Len(disc_args.levels) = 0) => disc_ret.raised = "ValueError"

\* a raise for an empty levels array and a NaN score
C17_Witness ==
    /\ DiscreteCalled
    /\ Len(disc_args.levels) = 0
    /\ IsNaN(disc_args.continuous_csi)
    /\ disc_ret.raised = "ValueError"

----------------------------------------------------------------------------
(* Calls of create_filtering_masks.                                        *)

\* the four corners, in the order top-left, top-right, bottom-right, bottom-left, of
\* the quadrilateral with sides parallel to the axes from (x1, y1) to (x2, y2)
Corners(x1, x2, y1, y2) == <<<<x1, y1>>, <<x2, y1>>, <<x2, y2>>, <<x1, y2>>>>

\* the configuration with the given sizes, corners and road class ids
MaskConfig(img_h, img_w, resize_h, resize_w, front, rear, class_ids) ==
    [img_h |-> img_h, img_w |-> img_w, resize_h |-> resize_h, resize_w |-> resize_w,
     tp_front_top_left     |-> front[1], tp_front_top_right   |-> front[2],
     tp_front_bottom_right |-> front[3], tp_front_bottom_left |-> front[4],
     tp_rear_top_left      |-> rear[1],  tp_rear_top_right    |-> rear[2],
     tp_rear_bottom_right  |-> rear[3],  tp_rear_bottom_left  |-> rear[4],
     class_ids |-> class_ids]

\* corner coordinates tried: from one below 0 to one above the largest size
Coords == (0 - 1)..(MaxImg + 1)

\* rear quadrilaterals tried: the whole image, its top-left pixel, and one reaching
\* past the right or the bottom edge of the image
RearRois(img_h, img_w) ==
    {Corners(0, img_w, 0, img_h), Corners(0, 0, 0, 0),
     Corners(0, img_w + 1, 0, img_h), Corners(0, img_w, 0, img_h + 1)}

\* road class ids tried: ROAD_CLASS_IDS, a list without the background 0, a list
\* whose last id does not fit a uint8 pixel, and an empty list
ClassIdLists == {<<0, 1>>, <<1>>, <<0, 256>>, <<>>}

\* configurations tried.  With a size <= 0: ROAD_CLASS_IDS and the whole image as both
\* regions.  With positive sizes: every front quadrilateral with sides parallel to
\* the axes and corners in Coords, each rear one and each list of class ids.
InitMasks ==
    /\ pc = "call"
    /\ \/ \E h \in 0..MaxImg, w \in 0..MaxImg, rh \in 0..MaxResize, rw \in 0..MaxResize :
            /\ h = 0 \/ w = 0 \/ rh = 0 \/ rw = 0
            /\ csi_config = MaskConfig(h, w, rh, rw, Corners(0, w, 0, h),
                                       Corners(0, w, 0, h), <<0, 1>>)
       \/ \E h \in 1..MaxImg, w \in 1..MaxImg, rh \in 1..MaxResize, rw \in 1..MaxResize,
             x1 \in Coords, x2 \in Coords, y1 \in Coords, y2 \in Coords,
             ids \in ClassIdLists :
            /\ x1 <= x2 /\ y1 <= y2
            /\ \E rear \in RearRois(h, w) :
                 csi_config = MaskConfig(h, w, rh, rw, Corners(x1, x2, y1, y2), rear, ids)
    /\ masks_ret = NoCall
    /\ NoWeightCall /\ NoCsiCall /\ NoExtentCall /\ NoDiscreteCall /\ NoSystem

\* probes.py calls create_filtering_masks(csi_config) once, when the module is loaded
MasksCall ==
    /\ pc = "call"
    /\ csi_config # NoCall
    /\ masks_ret' = create_filtering_masks(csi_config)
    /\ pc' = "done"
    /\ UNCHANGED <<csi_config, weightVars, csiVars, extentVars, discreteVars, systemVars>>

NextMasks == MasksCall

SpecMasks == InitMasks /\ [][NextMasks]_vars

----------------------------------------------------------------------------
(* Properties of create_filtering_masks (checked under SpecMasks).         *)

\* create_filtering_masks has returned or raised
MasksCalled == pc = "done" /\ csi_config # NoCall

\* the eight configured corner points
C18_Points ==
    {csi_config.tp_front_top_left, csi_config.tp_front_top_right,
     csi_config.tp_front_bottom_right, csi_config.tp_front_bottom_left,
     csi_config.tp_rear_top_left, csi_config.tp_rear_top_right,
     csi_config.tp_rear_bottom_right, csi_config.tp_rear_bottom_left}

\* a size is <= 0, or a corner has x outside [0, img_w] or y outside [0, img_h]
C18_Invalid ==
    \/ \E size \in {csi_config.img_h, csi_config.img_w,
                     csi_config.resize_h, csi_config.resize_w} : size <= 0
    \/ \E pt \in C18_Points :
          \/ pt[1] \notin 0..csi_config.img_w
          \/ pt[2] \notin 0..csi_config.img_h

\* C18: create_filtering_masks fails with a configuration error and returns no mask
\* whenever any of img_h, img_w, resize_h, resize_w is <= 0 or any front or rear
\* corner has x outside [0, img_w] or y outside [0, img_h]; when all of these checks
\* pass, validation does not reject the configuration.
C18_ValidationRejectsExactly ==
    MasksCalled =>
        /\ C18_Invalid => (masks_ret.raised = "ValueError" /\ masks_ret.masks = <<>>)
        /\ ~C18_Invalid => masks_ret.stage \notin {"dimensions", "front_roi", "rear_roi"}

\* a rejection whose only cause is a rear corner below the bottom edge of the image
C18_Witness ==
    /\ MasksCalled
    /\ masks_ret.raised = "ValueError"
    /\ masks_ret.stage = "rear_roi"
    /\ csi_config.tp_rear_bottom_right = <<csi_config.img_w, csi_config.img_h + 1>>
    /\ csi_config.tp_rear_top_right = <<csi_config.img_w, 0>>

\* the values present in a mask
C19_Values(mask) ==
    UNION {{mask[r][col] : col \in 1..Len(mask[r])} : r \in 1..Len(mask)}

\* the configured road-class-id set
C19_RoadClassIds == {csi_config.class_ids[i] : i \in 1..Len(csi_config.class_ids)}

\* C19: every region mask that create_filtering_masks returns contains only values
\* that are members of the configured road-class-id set; if either built mask holds
\* any other value the call fails instead of returning.
C19_OnlyRoadClassIds ==
    MasksCalled =>
        /\ masks_ret.raised = "none" =>
              \A i \in 1..2 : C19_Values(masks_ret.masks[i]) \subseteq C19_RoadClassIds
        /\ ~(C19_Values(masks_ret.trap_mask_front) \cup C19_Values(masks_ret.trap_mask_rear)
                 \subseteq C19_RoadClassIds)
              => (masks_ret.raised = "ValueError" /\ masks_ret.masks = <<>>)

\* two masks returned, the front one holding background and road pixels, under
\* ROAD_CLASS_IDS
C19_Witness ==
    /\ MasksCalled
    /\ masks_ret.raised = "none"
    /\ csi_config.class_ids = <<0, 1>>
    /\ C19_Values(masks_ret.masks[1]) = {0, 1}

\* the four corners given are the four corners of the source image: (0, 0) and,
\* diagonally opposite, its last pixel or the point one past it
C20_ImageCorners(top_left, top_right, bottom_right, bottom_left) ==
    \E x \in {csi_config.img_w - 1, csi_config.img_w} :
    \E y \in {csi_config.img_h - 1, csi_config.img_h} :
        /\ top_left = <<0, 0>> /\ top_right = <<x, 0>>
        /\ bottom_right = <<x, y>> /\ bottom_left = <<0, y>>

\* the mask has shape (resize_h, resize_w) and every pixel is the road label
C20_AllRoad(mask) ==
    /\ Len(mask) = csi_config.resize_h
    /\ \A r \in 1..Len(mask) :
          /\ Len(mask[r]) = csi_config.resize_w
          /\ \A col \in 1..Len(mask[r]) :
                mask[r][col] = csi_config.class_ids[Len(csi_config.class_ids)]

\* C20: when the four corners of a view are the four corners of the source image,
\* create_filtering_masks returns for that view a mask of shape (resize_h, resize_w)
\* in which every pixel equals the road foreground label, for every positive source
\* and target size.  (With ROAD_CLASS_IDS and all corners in bounds the call returns.)
C20_FullImageAllRoad ==
    MasksCalled =>
        /\ (csi_config.class_ids = <<0, 1>> /\ ~C18_Invalid) => masks_ret.raised = "none"
        /\ masks_ret.raised = "none" =>
              /\ C20_ImageCorners(csi_config.tp_front_top_left,
                                  csi_config.tp_front_top_right,
                                  csi_config.tp_front_bottom_right,
                                  csi_config.tp_front_bottom_left)
                    => C20_AllRoad(masks_ret.masks[1])
              /\ C20_ImageCorners(csi_config.tp_rear_top_left,
                                  csi_config.tp_rear_top_right,
                                  csi_config.tp_rear_bottom_right,
                                  csi_config.tp_rear_bottom_left)
                    => C20_AllRoad(masks_ret.masks[2])

\* a 2 x 2 image whose front corners are its corner pixels, resized to 1 x 2, all
\* road, next to a rear mask that is not all road
C20_Witness ==
    /\ MasksCalled
    /\ masks_ret.raised = "none"
    /\ csi_config.img_h = 2 /\ csi_config.img_w = 2
    /\ csi_config.resize_h = 1 /\ csi_config.resize_w = 2
    /\ csi_config.tp_front_top_left = <<0, 0>>
    /\ csi_config.tp_front_bottom_right = <<1, 1>>
    /\ masks_ret.masks[1] = <<<<1, 1>>>>
    /\ masks_ret.masks[2] = <<<<1, 0>>>>

----------------------------------------------------------------------------
(* Calls of compute_csi.                                                   *)

\* DEFAULT_N_BINS
DefaultNBins == 48

\* the defaults of constants.py; smooth (2e-22 there) is a small positive number
DefaultConfig ==
    [road_class_ids        |-> {0, 1},
     garbage_class_ids     |-> {0, 1, 2},
     n_bins                |-> DefaultNBins,
     linsp_start           |-> Q(7, 10),
     linsp_stop            |-> F(1),
     percentage_dirty_road |-> Q(1, 2),
     garbage_type_coeffs   |-> <<Q(6, 10), Q(7, 10)>>,
     smooth                |-> Q(1, 1000),
     clip_csi              |-> FALSE]

\* the configurations tried: dirty_road_fraction in [0, 1], smooth >= 0, coefficients >= 0
Configs ==
    {DefaultConfig,
     [DefaultConfig EXCEPT !.clip_csi = TRUE],
     [DefaultConfig EXCEPT !.percentage_dirty_road = F(1), !.n_bins = 2,
                           !.garbage_type_coeffs = <<Q(7, 10), Q(6, 10)>>],
     [DefaultConfig EXCEPT !.linsp_start = F(0), !.smooth = F(0)],
     [DefaultConfig EXCEPT !.garbage_type_coeffs = <<F(0), F(0)>>],
     [DefaultConfig EXCEPT !.percentage_dirty_road = F(1), !.linsp_start = F(0),
                           !.smooth = F(0)],
     [DefaultConfig EXCEPT !.percentage_dirty_road = F(0), !.smooth = F(0),
                           !.clip_csi = TRUE]}

\* the mask with `label` on rows r1..r2, columns c1..c2, and 0 elsewhere
Rect(r1, r2, c1, c2, label) ==
    [r \in 1..NRows |-> [c \in 1..NCols |->
        IF r >= r1 /\ r <= r2 /\ c >= c1 /\ c <= c2 THEN label ELSE 0]]

ZeroMask == Rect(1, 0, 1, 0, 0)

\* road in columns c1 and c2 only, on every row
Posts(c1, c2) ==
    [r \in 1..NRows |-> [c \in 1..NCols |-> IF c = c1 \/ c = c2 THEN 1 ELSE 0]]

\* road masks tried: None, no road, a block of road of full height or on the bottom row, two
\* separate columns of road, and one mask carrying a label that is no road class
RoadMasks ==
    {None, ZeroMask, Rect(1, NRows, 1, NCols, 2)}
    \cup {Rect(r1, NRows, c1, c2, 1) : r1 \in {1, NRows}, c1 \in 1..NCols, c2 \in 1..NCols}
    \cup {Posts(c1, c2) : c1 \in 1..NCols, c2 \in 1..NCols}

\* garbage masks tried: none, one pixel of label 1 or 2, a pixel of label 1 next to a
\* pixel of label 2, a full block of one label, and a pixel of label 3 (no garbage class)
GarbageMasks ==
    {ZeroMask, Rect(1, 1, 1, 1, 3)}
    \cup {Rect(r, r, c, c, l) : r \in 1..NRows, c \in 1..NCols, l \in 1..2}
    \cup {[Rect(r, r, c, c, 1) EXCEPT ![r][c + 1] = 2] : r \in 1..NRows, c \in 1..(NCols - 1)}
    \cup {Rect(1, NRows, 1, NCols, l) : l \in 1..2}

\* region masks tried (values 0 and the road label 1): the whole image, a trapezoid
\* one column narrower on each side per row above the bottom one, and column 2 alone
RegionMasks ==
    {Rect(1, NRows, 1, NCols, 1),
     [r \in 1..NRows |-> [c \in 1..NCols |->
         IF c > NRows - r /\ c <= NCols - (NRows - r) THEN 1 ELSE 0]],
     Rect(1, NRows, 2, 2, 1)}

Init ==
    /\ pc = "call"
    /\ road_mask \in RoadMasks
    /\ garbage_mask \in GarbageMasks
    /\ trapezoid_mask \in RegionMasks
    /\ cfg \in Configs
    /\ road_in = road_mask
    /\ garbage_in = garbage_mask
    /\ ret = NoCall
    /\ NoWeightCall /\ NoExtentCall /\ NoDiscreteCall /\ NoMaskCall /\ NoSystem

\* one call compute_csi(road_mask, garbage_mask, trapezoid_mask, ...), in-place
\* changes of the caller's arrays included
CsiCall ==
    /\ pc = "call"
    /\ cfg # NoCall
    /\ ret' = compute_csi(road_mask, garbage_mask, trapezoid_mask, cfg)
    /\ road_mask' = ret'.road_mask
    /\ garbage_mask' = ret'.garbage_mask
    /\ pc' = "done"
    /\ UNCHANGED <<weightVars, trapezoid_mask, cfg, road_in, garbage_in,
                   extentVars, discreteVars, maskVars, systemVars>>

Next == CsiCall

Spec == Init /\ [][Next]_vars

----------------------------------------------------------------------------
(* Properties of compute_csi (checked under Spec).                         *)

\* compute_csi has returned or raised
CsiDone == pc = "done" /\ cfg # NoCall

Pixels == (1..NRows) \X (1..NCols)

\* the road mask passed in has a nonzero pixel
RoadGiven == road_in # None /\ \E p \in Pixels : road_in[p[1]][p[2]] # 0

\* the input contract: road labels and garbage labels are configured class ids
LabelsValid ==
    /\ road_in # None => \A p \in Pixels : road_in[p[1]][p[2]] \in cfg.road_class_ids
    /\ \A p \in Pixels : garbage_in[p[1]][p[2]] \in cfg.garbage_class_ids

\* pixel p is road inside the region of interest
OnRoi(p) == road_in[p[1]][p[2]] # 0 /\ trapezoid_mask[p[1]][p[2]] # 0

\* the columns holding road inside the region of interest
RoiColumns == {c \in 1..NCols : \E r \in 1..NRows : OnRoi(<<r, c>>)}

\* the road mask with the pixels outside the region of interest set to 0
RoiRoad == [r \in 1..NRows |-> [c \in 1..NCols |->
               IF trapezoid_mask[r][c] # 0 THEN road_in[r][c] ELSE 0]]

\* the garbage mask with the pixels that are not road inside the region set to 0
RoiGarbage == [r \in 1..NRows |-> [c \in 1..NCols |->
                  IF OnRoi(<<r, c>>) THEN garbage_in[r][c] ELSE 0]]

\* C1: compute_csi returns (NaN, NaN) whenever the road mask is None or all of its
\* pixels are zero, for any garbage mask, region mask and configuration.
C1_EmptyRoadGivesNaN ==
    (CsiDone /\ ~RoadGiven) =>
        ret.raised = "none" /\ IsNaN(ret.relative) /\ IsNaN(ret.absolute)

\* a call with a road mask of zeros and a garbage mask that is not empty
C1_Witness ==
    /\ CsiDone
    /\ road_in = ZeroMask
    /\ \E p \in Pixels : garbage_in[p[1]][p[2]] # 0
    /\ IsNaN(ret.relative) /\ IsNaN(ret.absolute)

C3_AbsoluteCountsPixels ==
    (CsiDone /\ LabelsValid /\ ret.raised = "none" /\ ~IsNaN(ret.absolute)) =>
        ret.absolute =
            F(Cardinality({p \in Pixels : OnRoi(p) /\ garbage_in[p[1]][p[2]] # 0}))

\* C5: a road mask that is not empty but has, once the pixels outside the region of
\* interest are zeroed, no nonzero column or exactly one, makes compute_csi return
\* (NaN, NaN); no exception leaves the call (labels valid, as the contract requires).
C5_DegenerateExtentGivesNaN ==
    (CsiDone /\ RoadGiven /\ LabelsValid /\ Cardinality(RoiColumns) <= 1) =>
        ret.raised = "none" /\ IsNaN(ret.relative) /\ IsNaN(ret.absolute)

\* a call whose road, wider than one column, keeps exactly one column in the region,
\* with garbage on it
C5_Witness ==
    /\ CsiDone /\ RoadGiven /\ LabelsValid
    /\ Cardinality(RoiColumns) = 1
    /\ Cardinality({c \in 1..NCols : \E r \in 1..NRows : road_in[r][c] # 0}) > 1
    /\ \E p \in Pixels : OnRoi(p) /\ garbage_in[p[1]][p[2]] # 0
    /\ ret.raised = "none" /\ IsNaN(ret.relative)

\* the weighted ROI-filtered road mask of the call
C6_Weighted ==
    LET lo == CHOOSE c \in RoiColumns : \A e \in RoiColumns : c <= e
        hi == CHOOSE c \in RoiColumns : \A e \in RoiColumns : c >= e
    IN  WeightedRoad(RoiRoad, lo, hi,
            get_weight_matrix_linspace(NRows, hi + 1 - lo, cfg.n_bins,
                cfg.linsp_start, cfg.linsp_stop, TRUE).field)

\* the sum of the weighted road mask w over a set of pixels
RECURSIVE C6_SumOver(_, _)
C6_SumOver(S, w) ==
    IF S = {} THEN F(0)
    ELSE LET p == CHOOSE q \in S : TRUE
         IN  FAdd(w[p[1]][p[2]], C6_SumOver(S \ {p}, w))

\* the sum over the labels L in Ls of coeff[L-1] * A_L
RECURSIVE C6_Numerator(_, _)
C6_Numerator(Ls, w) ==
    IF Ls = {} THEN F(0)
    ELSE LET l == CHOOSE x \in Ls : TRUE
         IN  FAdd(FMul(cfg.garbage_type_coeffs[l],
                       C6_SumOver({p \in Pixels : RoiGarbage[p[1]][p[2]] = l}, w)),
                  C6_Numerator(Ls \ {l}, w))

\* dirty_road_fraction * road_area + smooth, road_area the sum of w
C6_Denominator(w) == FAdd(FMul(cfg.percentage_dirty_road, FSumMat(w)), cfg.smooth)

\* the garbage labels present on ROI-filtered road
C6_Labels == {RoiGarbage[p[1]][p[2]] : p \in Pixels} \ {0}

\* the same labels in descending order
C6_Descending ==
    LET asc == Ascending(C6_Labels)
    IN  [i \in 1..Len(asc) |-> asc[Len(asc) + 1 - i]]

\* a call that found a road extent and returned
C6_Scored ==
    /\ CsiDone /\ RoadGiven /\ LabelsValid /\ ret.raised = "none"
    /\ Cardinality(RoiColumns) >= 2

\* C6: when a road extent exists, the relative score before clipping equals
\* (sum over the labels L present on ROI-filtered road of coeff[L-1] * A_L)
\* / (dirty_road_fraction * road_area + smooth) / max(coeff), with road_area the sum
\* of the weighted ROI-filtered road mask and A_L its sum over the pixels labelled L
\* (wherever neither divisor is 0, so that the formula has a value); processing the
\* labels in the opposite order gives the same value.
C6_RelativeFormula ==
    C6_Scored =>
        LET w     == C6_Weighted
            denom == C6_Denominator(w)
            top   == FMax(cfg.garbage_type_coeffs)
        IN  /\ (denom.n # 0 /\ top.n # 0) =>
                  ret.unclipped = FDiv(FDiv(C6_Numerator(C6_Labels, w), denom), top)
            /\ Cardinality(C6_Labels) >= 2 =>
                  ret.unclipped = Score(RoiRoad, RoiGarbage, find_xmin_xmax(RoiRoad),
                                        cfg, C6_Descending)

\* a call with both garbage labels on road, unequal coefficients and a ramp in the field
C6_Witness ==
    /\ C6_Scored
    /\ C6_Labels = {1, 2}
    /\ Cardinality(RoiColumns) = NCols
    /\ FLt(F(0), ret.unclipped)

\* C7: pixels outside the region of interest, and garbage that does not sit on road
\* inside it, do not influence the result: a call returns what the call on the same
\* masks with those pixels zeroed returns (so any two valid inputs agreeing on the
\* remaining pixels get the same (relative, absolute), NaN counted equal to NaN).
C7_OutsideRoiIgnored ==
    (CsiDone /\ LabelsValid) =>
        LET same == compute_csi(IF road_in = None THEN None ELSE RoiRoad,
                                IF road_in = None THEN ZeroMask ELSE RoiGarbage,
                                trapezoid_mask, cfg)
        IN  /\ same.raised = ret.raised
            /\ same.relative = ret.relative
            /\ same.absolute = ret.absolute

\* a scored call whose masks hold road outside the region and garbage off the road
C7_Witness ==
    /\ CsiDone /\ LabelsValid /\ RoadGiven
    /\ \E p \in Pixels : road_in[p[1]][p[2]] # 0 /\ trapezoid_mask[p[1]][p[2]] = 0
    /\ \E p \in Pixels : garbage_in[p[1]][p[2]] # 0 /\ ~OnRoi(p)
    /\ \E p \in Pixels : garbage_in[p[1]][p[2]] # 0 /\ OnRoi(p)
    /\ ret.raised = "none" /\ IsFin(ret.relative) /\ FLt(F(0), ret.relative)

\* C21: compute_csi does not mutate the caller's input masks: after any call, the
\* road_mask and garbage_mask arrays passed in hold exactly the values they held
\* before the call.
C21_InputsNotMutated ==
    CsiDone => (road_mask = road_in /\ garbage_mask = garbage_in)

\* C24: with debug assertions enabled, compute_csi signals a validation error
\* whenever the road mask contains a label outside road_class_ids or the garbage mask
\* contains a label outside garbage_class_ids, and it does so before either mask has
\* been modified.
C24_InvalidLabelsRejectedFirst ==
    (CsiDone /\ ~LabelsValid) =>
        /\ ret.raised = "ValueError"
        /\ road_mask = road_in
        /\ garbage_mask = garbage_in


\* the configuration of the call is within the ranges the score is defined for
ConfigInRange ==
    /\ FLeq(F(0), cfg.smooth)
    /\ \A i \in 1..Len(cfg.garbage_type_coeffs) : FLeq(F(0), cfg.garbage_type_coeffs[i])

\* C26: with clipping disabled, dirty_road_fraction = 1, smooth >= 0 and non-negative
\* coefficients, the relative score returned by compute_csi never exceeds 1, for
\* every road mask, garbage mask and region mask with valid labels; only
\* dirty_road_fraction < 1 can push it above 1.
C26_RelativeAtMostOne ==
    (CsiDone /\ LabelsValid /\ ~cfg.clip_csi /\ ConfigInRange /\ ret.raised = "none") =>
        /\ cfg.percentage_dirty_road = F(1) => ~FGt(ret.relative, F(1))
        /\ FGt(ret.relative, F(1)) => FLt(cfg.percentage_dirty_road, F(1))

\* with dirty_road_fraction = 1 and no clipping, a road covered by garbage of the
\* type with the largest coefficient scores a number above 0.99
C26_Witness ==
    /\ CsiDone /\ LabelsValid /\ ~cfg.clip_csi /\ ConfigInRange
    /\ cfg.percentage_dirty_road = F(1)
    /\ ret.raised = "none"
    /\ IsFin(ret.relative)
    /\ FGt(ret.relative, Q(99, 100))

\* C27: the two components of a compute_csi result are undefined together: for
\* every input with smooth > 0, relative is NaN if and only if absolute is NaN.
C27_UndefinedTogether ==
    (CsiDone /\ ret.raised = "none" /\ FGt(cfg.smooth, F(0))) =>
        (IsNaN(ret.relative) <=> IsNaN(ret.absolute))

\* C27 for configurations with a coefficient above 0: for every input with
\* smooth > 0 and max(coefficients) > 0, relative is NaN if and only if absolute is NaN.
C27_PositiveCoefficient ==
    (CsiDone /\ ret.raised = "none" /\ FGt(cfg.smooth, F(0))
        /\ FGt(FMax(cfg.garbage_type_coeffs), F(0))) =>
        (IsNaN(ret.relative) <=> IsNaN(ret.absolute))

\* road in one column only, with garbage on it: both components are NaN although
\* line 315 has summed the garbage labels
C27_Witness ==
    /\ CsiDone /\ LabelsValid /\ RoadGiven
    /\ FGt(cfg.smooth, F(0))
    /\ FGt(FMax(cfg.garbage_type_coeffs), F(0))
    /\ ret.raised = "none"
    /\ ISumMat(ret.garbage_mask) > 0
    /\ IsNaN(ret.relative) /\ IsNaN(ret.absolute)

----------------------------------------------------------------------------
\* Frames: the probe scores one frame after another against the region masks built once
\* (probes.py, trapezoid_masks and compute_csi_buffer_probe)

MaxFrames == 2

\* a region mask is bound to the parameter trapezoid_mask and only read: no statement
\* of compute_csi assigns to it or changes it in place
RegionAfterFiltered(road, garbage, trapezoid, c) ==
    IF road = None THEN trapezoid ELSE MaskMul(trapezoid, road)

RegionAfter(road, garbage, trapezoid, c) == trapezoid

\* the trapezoid of RegionMasks
Trapezoid ==
    [r \in 1..NRows |-> [c \in 1..NCols |->
        IF c > NRows - r /\ c <= NCols - (NRows - r) THEN 1 ELSE 0]]

\* region masks per view as create_filtering_masks may have built them: values 0 and
\* the road label, which is 1 or, for road class ids [0, 2], 2
RegionMaskPairs ==
    {[front |-> Rect(1, NRows, 1, NCols, 1), rear |-> Trapezoid],
     [front |-> Trapezoid, rear |-> Rect(1, NRows, 2, 2, 1)],
     [front |-> Rect(1, NRows, 1, NCols, 2), rear |-> Rect(1, NRows, 1, NCols, 1)]}

\* the road masks of the frames: None, no road, road everywhere, road on the bottom row
\* short of the last column, road in the outer columns, and a label that is no road class
FrameRoads ==
    {None, ZeroMask, Rect(1, NRows, 1, NCols, 1), Rect(NRows, NRows, 1, NCols - 1, 1),
     Posts(1, NCols), Rect(1, NRows, 1, NCols, 2)}

\* the garbage masks of the frames: none, garbage of type 2 everywhere, a pixel of type
\* 1 next to one of type 2 on the bottom row, and a label that is no garbage class
FrameGarbage ==
    {ZeroMask, Rect(1, NRows, 1, NCols, 2),
     [Rect(NRows, NRows, 1, 1, 1) EXCEPT ![NRows][2] = 2], Rect(1, 1, 1, 1, 3)}

FrameConfigs == {DefaultConfig, [DefaultConfig EXCEPT !.clip_csi = TRUE]}

\* the masks of a new frame of view k are copied out of the buffer into new arrays
TakeFrame(k) ==
    /\ key' = k
    /\ road_mask' \in FrameRoads
    /\ garbage_mask' \in FrameGarbage
    /\ road_in' = road_mask'
    /\ garbage_in' = garbage_mask'
    /\ ret' = NoCall
    /\ first' = NoCall
    /\ pc' = "call"

InitFrames ==
    /\ trapezoid_masks \in RegionMaskPairs
    /\ built_masks = trapezoid_masks
    /\ cfg \in FrameConfigs
    /\ key \in {"front", "rear"}
    /\ trapezoid_mask = trapezoid_masks[key]
    /\ road_mask \in FrameRoads
    /\ garbage_mask \in FrameGarbage
    /\ road_in = road_mask
    /\ garbage_in = garbage_mask
    /\ ret = NoCall
    /\ first = NoCall
    /\ frames = 1
    /\ pc = "call"
    /\ NoWeightCall /\ NoExtentCall /\ NoDiscreteCall /\ NoMaskCall /\ NoThreads /\ NoProbe /\ NoStateMachine

\* compute_csi(road_mask, garbage_mask, trapezoid_masks[key], ...) on the arrays of the
\* frame: the masks and the region mask are passed by reference
ScoreArrays ==
    /\ ret' = compute_csi(road_mask, garbage_mask, trapezoid_masks[key], cfg)
    /\ road_mask' = ret'.road_mask
    /\ garbage_mask' = ret'.garbage_mask
    /\ trapezoid_masks' =
           [trapezoid_masks EXCEPT
               ![key] = RegionAfter(road_mask, garbage_mask, trapezoid_masks[key], cfg)]
    /\ trapezoid_mask' = trapezoid_masks'[key]

\* the first call on the arrays of a frame
FrameCall ==
    /\ pc = "call"
    /\ trapezoid_masks # NoCall
    /\ ScoreArrays
    /\ pc' = "done"
    /\ UNCHANGED <<cfg, road_in, garbage_in, built_masks, key, frames, first,
                   weightVars, extentVars, discreteVars, maskVars, threadVars, probeVars, smVars>>

\* a second call on the very arrays the first call has processed
Rescore ==
    /\ pc = "done"
    /\ trapezoid_masks # NoCall
    /\ ScoreArrays
    /\ first' = ret
    /\ pc' = "rescored"
    /\ UNCHANGED <<cfg, road_in, garbage_in, built_masks, key, frames,
                   weightVars, extentVars, discreteVars, maskVars, threadVars, probeVars, smVars>>

\* the next frame of the batch or the next buffer, of either view
NextFrame ==
    /\ pc \in {"done", "rescored"}
    /\ trapezoid_masks # NoCall
    /\ frames < MaxFrames
    /\ \E k \in {"front", "rear"} : TakeFrame(k)
    /\ trapezoid_mask' = trapezoid_masks[key']
    /\ frames' = frames + 1
    /\ UNCHANGED <<cfg, trapezoid_masks, built_masks,
                   weightVars, extentVars, discreteVars, maskVars, threadVars, probeVars, smVars>>

NextFrames == FrameCall \/ Rescore \/ NextFrame

SpecFrames == InitFrames /\ [][NextFrames]_vars

\* C22: the region masks built at startup are never modified afterwards; no sequence
\* of compute_csi calls, with any masks and for any view, changes any pixel of the
\* region mask passed as trapezoid_mask.
C22_RegionMasksNeverModified ==
    trapezoid_masks # NoCall =>
        /\ trapezoid_masks = built_masks
        /\ trapezoid_mask = built_masks[key]

\* the second frame has been scored and the call has changed the frame's road mask
C22_Witness ==
    /\ frames >= 2
    /\ pc \in {"done", "rescored"}
    /\ ret.raised = "none"
    /\ road_mask # road_in

\* the labels the claim on re-scoring is about
BinaryMasks ==
    /\ road_in # None => \A p \in Pixels : road_in[p[1]][p[2]] \in {0, 1}
    /\ \A p \in Pixels : trapezoid_mask[p[1]][p[2]] \in {0, 1}

\* C28: with road labels in {0, 1} and a region mask with values in {0, 1}, calling
\* compute_csi a second time on the road_mask and garbage_mask arrays a first call has
\* already processed, with the same region mask and configuration, returns the same
\* (relative, absolute) as the first call and does not change the arrays further.
C28_RescoringIsStable ==
    (pc = "rescored" /\ BinaryMasks) =>
        /\ ret.raised = first.raised
        /\ ret.relative = first.relative
        /\ ret.absolute = first.absolute
        /\ road_mask = first.road_mask
        /\ garbage_mask = first.garbage_mask

\* arrays the first call has changed and scored with numbers are scored again
C28_Witness ==
    /\ pc = "rescored"
    /\ BinaryMasks
    /\ first.raised = "none"
    /\ IsFin(first.relative)
    /\ ~(first.absolute = F(0))
    /\ first.road_mask # road_in
    /\ first.garbage_mask # garbage_in


----------------------------------------------------------------------------
\* Two invocations of compute_csi, one per view, on two threads.  Each has its own
\* road, garbage and region arrays; the configuration is shared and only read.  A step
\* of a thread is one statement (or one block without shared effects) of compute_csi.

Views == {"front", "rear"}

\* all invocations keeping their local variables in one place
FrameShared(v) == "front"

\* the frame holding the local variables of the invocation for view v: every call
\* of a Python function has a frame of its own
Frame(v) == v

ThreadRoads ==
    {ZeroMask, Rect(1, NRows, 1, NCols, 1), Rect(NRows, NRows, 1, NCols - 1, 1),
     Rect(1, NRows, 1, NCols, 2)}

ThreadGarbage ==
    {Rect(1, NRows, 1, NCols, 2), [Rect(NRows, NRows, 1, 1, 1) EXCEPT ![NRows][2] = 2],
     Rect(1, 1, 1, 1, 3)}

\* an invocation about to execute line 286 on the arrays road and garbage
Invocation(road, garbage) ==
    [line |-> 286, road_mask |-> road, garbage_mask |-> garbage,
     road_in |-> road, garbage_in |-> garbage, ret |-> NoCall]

NoLocals == [csi_absolute |-> NaN, x_min |-> 0, x_max |-> 0]

InitThreads ==
    /\ pc = "threads"
    /\ cfg \in FrameConfigs
    /\ trapezoid_masks \in RegionMaskPairs
    /\ built_masks = trapezoid_masks
    /\ key = "none" /\ frames = 0 /\ first = NoCall
    /\ \E rf \in ThreadRoads, gf \in ThreadGarbage, rr \in ThreadRoads, gr \in ThreadGarbage :
           threads = [front |-> Invocation(rf, gf), rear |-> Invocation(rr, gr)]
    /\ locals = [v \in Views |-> NoLocals]
    /\ road_mask = <<>> /\ garbage_mask = <<>> /\ trapezoid_mask = <<>>
    /\ road_in = <<>> /\ garbage_in = <<>> /\ ret = NoCall
    /\ NoWeightCall /\ NoExtentCall /\ NoDiscreteCall /\ NoMaskCall /\ NoProbe /\ NoStateMachine

\* the invocation of view v is at line l
At(v, l) == pc = "threads" /\ threads # NoCall /\ threads[v].line = l

\* the invocation of view v ends, returning or raising
Return(v, raised, relative, unclipped, absolute) ==
    threads' = [threads EXCEPT
        ![v].line = 0,
        ![v].ret = Outcome(raised, relative, unclipped, absolute,
                           threads[v].road_mask, threads[v].garbage_mask)]

OtherThanThreads ==
    <<pc, weightVars, csiVars, extentVars, discreteVars, maskVars, frameVars, probeVars,
      smVars>>

\* lines 286-306: the early exit and the label checks
CheckInputs(v) ==
    /\ At(v, 286)
    /\ IF EmptyRoad(threads[v].road_mask)
       THEN Return(v, "none", NaN, NaN, NaN)
       ELSE IF ~ValidLabels(threads[v].road_mask, threads[v].garbage_mask, cfg)
       THEN Return(v, "ValueError", NaN, NaN, NaN)
       ELSE threads' = [threads EXCEPT ![v].line = 309]
    /\ UNCHANGED <<locals, OtherThanThreads>>

\* line 309: road_mask *= trapezoid_mask
FilterRoadInPlace(v) ==
    /\ At(v, 309)
    /\ threads' = [threads EXCEPT
           ![v].road_mask = FilterRoad(threads[v].road_mask, trapezoid_masks[v]),
           ![v].line = 312]
    /\ UNCHANGED <<locals, OtherThanThreads>>

\* line 312: garbage_mask *= road_mask
FilterGarbageInPlace(v) ==
    /\ At(v, 312)
    /\ threads' = [threads EXCEPT
           ![v].garbage_mask = FilterGarbage(threads[v].garbage_mask, threads[v].road_mask),
           ![v].line = 315]
    /\ UNCHANGED <<locals, OtherThanThreads>>

\* line 315: csi_absolute = np.sum(garbage_mask)
SumAbsolute(v) ==
    /\ At(v, 315)
    /\ locals' = [locals EXCEPT
           ![Frame(v)].csi_absolute = SumGarbage(threads[v].garbage_mask)]
    /\ threads' = [threads EXCEPT ![v].line = 317]
    /\ UNCHANGED OtherThanThreads

\* lines 317-331: x_min, x_max = find_xmin_xmax(road_mask), (NaN, NaN) if it raises
FindExtent(v) ==
    /\ At(v, 317)
    /\ LET ext == find_xmin_xmax(threads[v].road_mask)
       IN  IF ext.raised # "none"
           THEN /\ Return(v, "none", NaN, NaN,
                          AbsoluteWithoutExtent(locals[Frame(v)].csi_absolute))
                /\ UNCHANGED locals
           ELSE /\ locals' = [locals EXCEPT ![Frame(v)].x_min = ext.x_min,
                                            ![Frame(v)].x_max = ext.x_max]
                /\ threads' = [threads EXCEPT ![v].line = 334]
    /\ UNCHANGED OtherThanThreads

\* lines 333-372: weights, areas, relative score, clipping and the return
ScoreAndReturn(v) ==
    /\ At(v, 334)
    /\ LET t      == threads[v]
           l      == locals[Frame(v)]
           labels == Ascending(Unique(t.garbage_mask) \ {0})
       IN  IF \E g \in Unique(t.garbage_mask) \ {0} : g > Len(cfg.garbage_type_coeffs)
           THEN Return(v, "IndexError", NaN, NaN, NaN)
           ELSE LET rel == Score(t.road_mask, t.garbage_mask, l, cfg, labels)
                IN  Return(v, "none",
                           IF cfg.clip_csi THEN FClip(rel, F(0), F(1)) ELSE rel,
                           rel, l.csi_absolute)
    /\ UNCHANGED <<locals, OtherThanThreads>>

NextThreads ==
    \E v \in Views :
        \/ CheckInputs(v)
        \/ FilterRoadInPlace(v)
        \/ FilterGarbageInPlace(v)
        \/ SumAbsolute(v)
        \/ FindExtent(v)
        \/ ScoreAndReturn(v)

SpecThreads == InitThreads /\ [][NextThreads]_vars

\* the invocation of view v has ended
Ended(v) == threads # NoCall /\ threads[v].line = 0

\* what the invocation of view v returns when it runs alone
Alone(v) ==
    compute_csi(threads[v].road_in, threads[v].garbage_in, built_masks[v], cfg)

\* C23: two compute_csi invocations for different camera views running concurrently,
\* each with its own road and garbage masks and its own region mask and sharing only
\* the read-only configuration, return under every interleaving of their steps the
\* same results each would return when run alone.
C23_ConcurrentAsAlone ==
    \A v \in Views : Ended(v) => threads[v].ret = Alone(v)

\* both invocations have returned numbers, with different absolute scores
C23_Witness ==
    /\ \A v \in Views : Ended(v) /\ threads[v].ret.raised = "none"
                                 /\ IsFin(threads[v].ret.relative)
    /\ threads["front"].ret.absolute # threads["rear"].ret.absolute
    /\ threads["front"].ret.relative # threads["rear"].ret.relative


----------------------------------------------------------------------------
\* compute_csi_buffer_probe (probes.py), one invocation on one buffer

MaxBatch == 2

\* the user metadata lists of the frames: entries are the road or the garbage
\* segmentation (with valid labels or with a label outside the class ids), metadata of
\* another type, or an entry whose cast raises StopIteration
UserMetaLists ==
    {<<>>, <<"road">>, <<"road", "garbage">>, <<"garbage", "road">>,
     <<"other", "road", "garbage">>, <<"road_invalid", "garbage">>,
     <<"road", "garbage_invalid">>, <<"road", "stop", "garbage">>}

FrameMetas ==
    [cast : {TRUE}, pad_index : {0, 1}, frame_user_meta_list : UserMetaLists]
    \cup [cast : {FALSE}, pad_index : {0}, frame_user_meta_list : {<<>>}]

\* np.array(object=mask, copy=True) of the segmentation of a user metadata entry
SegmentationMask(entry) ==
    CASE entry = "road"            -> Rect(1, NRows, 1, NCols, 1)
      [] entry = "road_invalid"    -> Rect(1, NRows, 1, NCols, 2)
      [] entry = "garbage"         -> [Rect(NRows, NRows, 1, 1, 1) EXCEPT ![NRows][2] = 2]
      [] entry = "garbage_invalid" -> Rect(1, 1, 1, 1, 3)

\* lines 204-233: the loop over the user metadata from entry i on, with the masks
\* found so far; a cast that raises StopIteration ends the loop
RECURSIVE RetrieveMasks(_, _, _)
RetrieveMasks(l_user, i, masks) ==
    IF i > Len(l_user) \/ l_user[i] = "stop" THEN masks
    ELSE RetrieveMasks(l_user, i + 1,
             IF l_user[i] \in {"road", "road_invalid"}
             THEN [masks EXCEPT !.road_mask = SegmentationMask(l_user[i])]
             ELSE IF l_user[i] \in {"garbage", "garbage_invalid"}
             THEN [masks EXCEPT !.garbage_mask = SegmentationMask(l_user[i])]
             ELSE masks)

\* None for the garbage mask is the marker None of the road mask
NoMasks == [road_mask |-> None, garbage_mask |-> None]

\* line 200: key = "front" if frame_meta.pad_index == 0 else "rear"
ViewOf(frame_meta) == IF frame_meta.pad_index = 0 THEN "front" ELSE "rear"

\* lines 65-68: disc_levels[key]
ProbeLevels(k) == DiscLevels(IF k = "front" THEN FrontCsiLevels ELSE RearCsiLevels)

\* the configuration of probes.py, lines 53-62; smooth is 2.0e-22 there, which is
\* far below what the exact fractions used here can hold next to the level
\* distances, and is taken as 0
ProbeConfig == [DefaultConfig EXCEPT !.smooth = F(0)]

InitProbe ==
    /\ pc = "probe"
    /\ batch_meta \in
           {[present |-> FALSE, frame_meta_list |-> <<>>, lock |-> 0, acquired |-> 0,
             released |-> 0, csi_meta |-> 0]}
           \cup UNION {[present : {TRUE}, frame_meta_list : [1..n -> FrameMetas], lock : {0},
                        acquired : {0}, released : {0}, csi_meta : {0}] : n \in 0..MaxBatch}
    /\ probe = [line |-> 185, l_frame |-> 0, raised |-> "none"]
    /\ cfg = ProbeConfig
    /\ trapezoid_masks = [front |-> Rect(1, NRows, 1, NCols, 1), rear |-> Trapezoid]
    /\ built_masks = trapezoid_masks
    /\ key = "none" /\ frames = 0 /\ first = NoCall
    /\ road_mask = <<>> /\ garbage_mask = <<>> /\ trapezoid_mask = <<>>
    /\ road_in = <<>> /\ garbage_in = <<>> /\ ret = NoCall
    /\ NoWeightCall /\ NoExtentCall /\ NoDiscreteCall /\ NoMaskCall /\ NoThreads /\ NoStateMachine

\* what the probe leaves alone; ret and disc_ret hold the results of its calls of
\* compute_csi and get_discrete_csi for the frame at hand
OtherThanProbe ==
    <<pc, weightVars, road_mask, garbage_mask, trapezoid_mask, cfg, road_in, garbage_in,
      extentVars, disc_args, maskVars, frameVars, threadVars, smVars>>

ProbeAt(l) == pc = "probe" /\ probe # NoCall /\ probe.line = l

\* lines 185-187: no batch metadata on the buffer
NoBatchMeta ==
    /\ ProbeAt(185)
    /\ ~batch_meta.present
    /\ probe' = [probe EXCEPT !.line = 0]
    /\ UNCHANGED <<batch_meta, ret, disc_ret, OtherThanProbe>>

\* lines 189-192: pyds.nvds_acquire_meta_lock(batch_meta), l_frame = frame_meta_list
AcquireMetaLock ==
    /\ ProbeAt(185)
    /\ batch_meta.present
    /\ batch_meta' = [batch_meta EXCEPT !.lock = @ + 1, !.acquired = @ + 1]
    /\ probe' = [probe EXCEPT !.line = 193, !.l_frame = 1]
    /\ UNCHANGED <<ret, disc_ret, OtherThanProbe>>

\* line 193: l_frame is None, the loop is over
FramesDone ==
    /\ ProbeAt(193)
    /\ probe.l_frame > Len(batch_meta.frame_meta_list)
    /\ probe' = [probe EXCEPT !.line = 292]
    /\ UNCHANGED <<batch_meta, ret, disc_ret, OtherThanProbe>>

\* lines 194-197: the cast of the frame raises StopIteration, break
FrameCastFails ==
    /\ ProbeAt(193)
    /\ probe.l_frame <= Len(batch_meta.frame_meta_list)
    /\ ~batch_meta.frame_meta_list[probe.l_frame].cast
    /\ probe' = [probe EXCEPT !.line = 292]
    /\ UNCHANGED <<batch_meta, ret, disc_ret, OtherThanProbe>>

\* lines 199-236: a frame without both masks is not scored
SkipFrame ==
    /\ ProbeAt(193)
    /\ probe.l_frame <= Len(batch_meta.frame_meta_list)
    /\ batch_meta.frame_meta_list[probe.l_frame].cast
    /\ LET masks == RetrieveMasks(
                        batch_meta.frame_meta_list[probe.l_frame].frame_user_meta_list,
                        1, NoMasks)
       IN  masks.road_mask = None \/ masks.garbage_mask = None
    /\ probe' = [probe EXCEPT !.l_frame = @ + 1]
    /\ UNCHANGED <<batch_meta, ret, disc_ret, OtherThanProbe>>

\* lines 199-290: a frame with both masks is scored and the CSI metadata attached.
\* An exception of compute_csi or get_discrete_csi is caught nowhere in the probe
\* and ends the invocation.
ProcessFrame ==
    /\ ProbeAt(193)
    /\ probe.l_frame <= Len(batch_meta.frame_meta_list)
    /\ batch_meta.frame_meta_list[probe.l_frame].cast
    /\ LET frame_meta == batch_meta.frame_meta_list[probe.l_frame]
           masks      == RetrieveMasks(frame_meta.frame_user_meta_list, 1, NoMasks)
       IN  /\ masks.road_mask # None /\ masks.garbage_mask # None
           /\ ret' = compute_csi(masks.road_mask, masks.garbage_mask,
                                 trapezoid_masks[ViewOf(frame_meta)], cfg)
           /\ disc_ret' = IF ret'.raised # "none" THEN NoCall
                          ELSE get_discrete_csi(ProbeLevels(ViewOf(frame_meta)),
                                                ret'.relative)
    /\ IF ret'.raised # "none"
       THEN /\ probe' = [probe EXCEPT !.line = 0, !.raised = ret'.raised]
            /\ UNCHANGED batch_meta
       ELSE IF disc_ret'.raised # "none"
       THEN /\ probe' = [probe EXCEPT !.line = 0, !.raised = disc_ret'.raised]
            /\ UNCHANGED batch_meta
       ELSE /\ probe' = [probe EXCEPT !.l_frame = @ + 1]
            /\ batch_meta' = [batch_meta EXCEPT !.csi_meta = @ + 1]
    /\ UNCHANGED OtherThanProbe

\* lines 292-304: pyds.nvds_release_meta_lock(batch_meta) and the return
ReleaseMetaLock ==
    /\ ProbeAt(292)
    /\ batch_meta' = [batch_meta EXCEPT !.lock = @ - 1, !.released = @ + 1]
    /\ probe' = [probe EXCEPT !.line = 0]
    /\ UNCHANGED <<ret, disc_ret, OtherThanProbe>>

NextProbe ==
    \/ NoBatchMeta
    \/ AcquireMetaLock
    \/ FramesDone
    \/ FrameCastFails
    \/ SkipFrame
    \/ ProcessFrame
    \/ ReleaseMetaLock

SpecProbe == InitProbe /\ [][NextProbe]_vars

\* the invocation has ended, by returning or by an exception
ProbeEnded == probe # NoCall /\ probe.line = 0

\* C29: every invocation of compute_csi_buffer_probe that acquires the batch
\* metadata lock releases it exactly once before the invocation ends, on every path
\* through the frame and user-meta loops, including early loop exits and the case
\* where compute_csi or get_discrete_csi raises.
C29_LockReleasedOnce ==
    (ProbeEnded /\ batch_meta.acquired = 1) =>
        batch_meta.released = 1 /\ batch_meta.lock = 0


----------------------------------------------------------------------------
\* SmartStateMachine (nozzlenet/src/state_machine.py; can/state_machine.py of the
\* pipeline has the same statements)

MaxCalls == 3

\* Python's None where a status is expected
NoStatus == "None"

\* the statuses passed as recieved_ns: None, the four nozzle statuses, a string that
\* is none of them, and the empty string
NozzleStatuses == {NoStatus, "clear", "blocked", "check", "gravel", "unknown", ""}

\* the statuses passed as recieved_aos
ActionObjectStatuses == {NoStatus, "true"}

\* `if status:` is false for None and for the empty string
Given(status) == status # NoStatus /\ status # ""

\* __init__; the timestamps last_nozzle_update and last_ao_update are None (0 here)
NewStateMachine ==
    [nozzle_state |-> 0, fan_speed |-> 0, current_state |-> "IDLE",
     current_status |-> "N/A", time_difference |-> 0,
     ao_status |-> "N/A", ao_difference |-> 0,
     last_nozzle_update |-> 0, last_ao_update |-> 0,
     nozzle_history |-> <<>>, ao_history |-> <<>>]

\* lines 64-71: the nozzle state of a status, the present one for an unknown status
NozzleState(self, recieved_ns) ==
    CASE recieved_ns = "clear"   -> 1
      [] recieved_ns = "blocked" -> 2
      [] recieved_ns = "check"   -> 3
      [] recieved_ns = "gravel"  -> 4
      [] OTHER                   -> self.nozzle_state

\* lines 63-85
UpdateNozzle(self, recieved_ns, t) ==
    IF ~Given(recieved_ns) THEN self
    ELSE [self EXCEPT
             !.nozzle_state = NozzleState(self, recieved_ns),
             !.current_status = recieved_ns,
             !.time_difference = IF self.last_nozzle_update # 0
                                 THEN t - self.last_nozzle_update ELSE @,
             !.last_nozzle_update = t,
             !.nozzle_history = Append(@, [status |-> recieved_ns, timestamp |-> t,
                                           state |-> NozzleState(self, recieved_ns)])]

\* lines 88-100
UpdateActionObject(self, recieved_aos, t) ==
    IF ~Given(recieved_aos) THEN self
    ELSE [self EXCEPT
             !.ao_status = recieved_aos,
             !.ao_difference = IF self.last_ao_update # 0
                               THEN t - self.last_ao_update ELSE @,
             !.last_ao_update = t,
             !.ao_history = Append(@, [status |-> recieved_aos, timestamp |-> t])]

\* update_fan_speed leaving the fan as it is for gravel
update_fan_speed_kept(self) ==
    [self EXCEPT !.fan_speed = IF self.nozzle_state = 2 THEN 8
                               ELSE IF self.nozzle_state = 3 THEN 5
                               ELSE IF self.nozzle_state = 1 THEN 2
                               ELSE IF self.nozzle_state = 4 THEN @
                               ELSE 0]

\* _update_fan_speed, lines 108-125
update_fan_speed(self) ==
    [self EXCEPT !.fan_speed = IF self.nozzle_state = 2 THEN 8
                               ELSE IF self.nozzle_state = 3 THEN 5
                               ELSE IF self.nozzle_state = 1 THEN 2
                               ELSE 0]

\* _update_current_state, lines 127-142: no branch for a state outside 0..4
update_current_state(self) ==
    [self EXCEPT !.current_state =
        CASE self.nozzle_state = 0 -> "IDLE"
          [] self.nozzle_state = 1 -> "NOZZLE_CLEAR"
          [] self.nozzle_state = 2 -> "NOZZLE_BLOCKED"
          [] self.nozzle_state = 3 -> "NOZZLE_CHECK"
          [] self.nozzle_state = 4 -> "GRAVEL_DETECTED"
          [] OTHER                 -> @]

\* lines 49-106
status_send(self, recieved_ns, recieved_aos, t) ==
    update_current_state(update_fan_speed(
        UpdateActionObject(UpdateNozzle(self, recieved_ns, t), recieved_aos, t)))

InitStateMachine ==
    /\ pc = "machine"
    /\ sm = NewStateMachine
    /\ now = 1
    /\ NoWeightCall /\ NoCsiCall /\ NoExtentCall /\ NoDiscreteCall /\ NoMaskCall
    /\ NoFrames /\ NoThreads /\ NoProbe

\* one call sm.status_send(recieved_ns, recieved_aos)
StatusSend ==
    /\ pc = "machine"
    /\ sm # NoCall
    /\ now <= MaxCalls
    /\ \E recieved_ns \in NozzleStatuses, recieved_aos \in ActionObjectStatuses :
           sm' = status_send(sm, recieved_ns, recieved_aos, now)
    /\ now' = now + 1
    /\ UNCHANGED <<pc, weightVars, csiVars, extentVars, discreteVars, maskVars,
                   frameVars, threadVars, probeVars>>

NextStateMachine == StatusSend

SpecStateMachine == InitStateMachine /\ [][NextStateMachine]_vars

\* the rows of the class documentation
C30_Rows ==
    {<<0, 0, "IDLE">>, <<1, 2, "NOZZLE_CLEAR">>, <<2, 8, "NOZZLE_BLOCKED">>,
     <<3, 5, "NOZZLE_CHECK">>, <<4, 0, "GRAVEL_DETECTED">>}

====
